---- MODULE Spec2Model ----
(***************************************************************************)
(* Model of MarkdownFormParser (shared/markdownParser.ts): the markdown    *)
(* form-definition parser, its exporter, the fidelity validator and the    *)
(* response-table reporter.                                                *)
(*                                                                         *)
(* Text is a sequence of one-character strings, so that split, trim, the   *)
(* regular expressions and JSON.stringify / JSON.parse are computed the    *)
(* way the code computes them.  A JavaScript value is a tagged record      *)
(* (JUndefined, JNull, JBool, JNum, JStr, JArr, JObj).                     *)
(***************************************************************************)
EXTENDS Integers, Sequences, FiniteSets, TLC

(***************************************************************************)
(* Characters and character classes                                        *)
(***************************************************************************)
NL == "\n"
BSL == "\\"
DQ == "\""

\* \s of the regular expressions and the characters String.prototype.trim removes
Whitespace == {" ", "\t", "\n", "\r"}

\* [a-z]
LowerLetters ==
  {"a","b","c","d","e","f","g","h","i","j","k","l","m",
   "n","o","p","q","r","s","t","u","v","w","x","y","z"}

Digits == {"0","1","2","3","4","5","6","7","8","9"}

\* the letters of "required" in upper case, for the /i flag
ToLowerChar(c) ==
  CASE c = "R" -> "r" [] c = "E" -> "e" [] c = "Q" -> "q" [] c = "U" -> "u"
    [] c = "I" -> "i" [] c = "D" -> "d" [] OTHER -> c

ToLower(s) == [i \in 1..Len(s) |-> ToLowerChar(s[i])]

(***************************************************************************)
(* String primitives of the JavaScript runtime                             *)
(***************************************************************************)
MinOf(S) == CHOOSE m \in S : \A k \in S : m <= k
MaxOf(S) == CHOOSE m \in S : \A k \in S : m >= k

\* s.startsWith(p)
StartsWith(s, p) == Len(s) >= Len(p) /\ SubSeq(s, 1, Len(p)) = p

\* s.substring(i - 1): the text from position i on
From(s, i) == SubSeq(s, i, Len(s))

\* whether p occurs in s at position i
MatchAt(s, p, i) == i + Len(p) - 1 <= Len(s) /\ SubSeq(s, i, i + Len(p) - 1) = p

\* s.includes(p)
Contains(s, p) == \E i \in 1..(Len(s) + 1) : MatchAt(s, p, i)

\* s.trim()
Trim(s) ==
  LET keep == {i \in 1..Len(s) : s[i] \notin Whitespace}
  IN  IF keep = {} THEN <<>> ELSE SubSeq(s, MinOf(keep), MaxOf(keep))

\* the position after a run of whitespace that starts at i (\s*)
RECURSIVE SkipWs(_, _)
SkipWs(s, i) == IF i <= Len(s) /\ s[i] \in Whitespace THEN SkipWs(s, i + 1) ELSE i

\* s.split(c), c one character
RECURSIVE SplitFrom(_, _, _)
SplitFrom(s, c, i) ==
  LET hits == {j \in i..Len(s) : s[j] = c}
  IN  IF hits = {} THEN <<SubSeq(s, i, Len(s))>>
      ELSE <<SubSeq(s, i, MinOf(hits) - 1)>> \o SplitFrom(s, c, MinOf(hits) + 1)

Split(s, c) == SplitFrom(s, c, 1)

\* parts.join(sep)
RECURSIVE Join(_, _)
Join(parts, sep) ==
  IF Len(parts) = 0 THEN <<>>
  ELSE IF Len(parts) = 1 THEN parts[1]
  ELSE parts[1] \o sep \o Join(Tail(parts), sep)

\* the concatenation of a sequence of texts
RECURSIVE Concat(_)
Concat(parts) == IF parts = <<>> THEN <<>> ELSE parts[1] \o Concat(Tail(parts))

\* s.replace(/c/g, r), c one character
RECURSIVE ReplaceAll(_, _, _)
ReplaceAll(s, c, r) ==
  IF s = <<>> THEN <<>>
  ELSE (IF s[1] = c THEN r ELSE <<s[1]>>) \o ReplaceAll(Tail(s), c, r)

(***************************************************************************)
(* JavaScript values                                                       *)
(***************************************************************************)
JUndefined == [k |-> "undefined"]
JNull == [k |-> "null"]
JNaN == [k |-> "NaN"]
JBool(b) == [k |-> "boolean", b |-> b]
JNum(n) == [k |-> "number", n |-> n]
JStr(s) == [k |-> "string", s |-> s]
JArr(a) == [k |-> "array", a |-> a]
\* an object is its own properties in insertion order, each <<key, value>>
JObj(o) == [k |-> "object", o |-> o]

\* the truthiness of a value: if (v), v || w, !v
Truthy(v) ==
  CASE v.k = "undefined" -> FALSE
    [] v.k = "null" -> FALSE
    [] v.k = "NaN" -> FALSE
    [] v.k = "boolean" -> v.b
    [] v.k = "number" -> v.n # 0
    [] v.k = "string" -> v.s # <<>>
    [] OTHER -> TRUE

\* Array.isArray(v)
IsArray(v) == v.k = "array"

\* obj[key]: the value of the last property of that name, or undefined
GetProp(obj, key) ==
  LET hits == {i \in 1..Len(obj.o) : obj.o[i][1] = key}
  IN  IF hits = {} THEN JUndefined ELSE obj.o[MaxOf(hits)][2]

\* obj[key] = v: an existing key keeps its place, a new key goes last
SetProp(obj, key, v) ==
  LET hits == {i \in 1..Len(obj.o) : obj.o[i][1] = key}
  IN  IF hits = {} THEN JObj(Append(obj.o, <<key, v>>))
      ELSE JObj([i \in 1..Len(obj.o) |-> IF i \in hits THEN <<key, v>> ELSE obj.o[i]])

DigitSeq == <<"0","1","2","3","4","5","6","7","8","9">>
DigitVal(c) == (CHOOSE d \in 1..10 : DigitSeq[d] = c) - 1

\* the decimal text of a natural number
RECURSIVE NatToText(_)
NatToText(n) ==
  IF n < 10 THEN <<DigitSeq[n + 1]>> ELSE NatToText(n \div 10) \o <<DigitSeq[(n % 10) + 1]>>

\* the decimal text of an integer
IntToText(n) == IF n < 0 THEN <<"-">> \o NatToText(0 - n) ELSE NatToText(n)

\* the value of a text of digits
RECURSIVE DigitsToNat(_)
DigitsToNat(s) ==
  IF s = <<>> THEN 0 ELSE 10 * DigitsToNat(SubSeq(s, 1, Len(s) - 1)) + DigitVal(s[Len(s)])

tTrue == <<"t","r","u","e">>
tFalse == <<"f","a","l","s","e">>
tNull == <<"n","u","l","l">>
tUndefined == <<"u","n","d","e","f","i","n","e","d">>
tNaN == <<"N","a","N">>
tObjectObject == <<"[","o","b","j","e","c","t"," ","O","b","j","e","c","t","]">>

\* String(v), and the text Array.prototype.join gives an element
RECURSIVE ToStr(_)
RECURSIVE JoinValues(_, _)
ToStr(v) ==
  CASE v.k = "undefined" -> tUndefined
    [] v.k = "null" -> tNull
    [] v.k = "NaN" -> tNaN
    [] v.k = "boolean" -> IF v.b THEN tTrue ELSE tFalse
    [] v.k = "number" -> IntToText(v.n)
    [] v.k = "string" -> v.s
    [] v.k = "array" -> JoinValues(v.a, <<",">>)
    [] OTHER -> tObjectObject

\* values.join(sep): null and undefined elements give the empty text
JoinValues(a, sep) ==
  LET text(v) == IF v.k \in {"undefined", "null"} THEN <<>> ELSE ToStr(v)
  IN  IF Len(a) = 0 THEN <<>>
      ELSE IF Len(a) = 1 THEN text(a[1])
      ELSE text(a[1]) \o sep \o JoinValues(Tail(a), sep)

\* Number(s) of a text: integers only
StrToNumber(s) ==
  LET t == Trim(s)
  IN  IF t = <<>> THEN JNum(0)
      ELSE IF \A i \in 1..Len(t) : t[i] \in Digits THEN JNum(DigitsToNat(t))
      ELSE IF t[1] = "-" /\ Len(t) > 1 /\ \A i \in 2..Len(t) : t[i] \in Digits
           THEN JNum(0 - DigitsToNat(Tail(t)))
      ELSE JNaN

\* Number(v)
ToNumber(v) ==
  CASE v.k = "number" -> v
    [] v.k = "boolean" -> JNum(IF v.b THEN 1 ELSE 0)
    [] v.k = "null" -> JNum(0)
    [] v.k = "string" -> StrToNumber(v.s)
    [] v.k = "array" -> StrToNumber(ToStr(v))
    [] OTHER -> JNaN

(***************************************************************************)
(* JSON.stringify and JSON.parse                                           *)
(***************************************************************************)
\* the text of a string between its quotes
RECURSIVE JsonEscape(_)
JsonEscape(s) ==
  IF s = <<>> THEN <<>>
  ELSE (CASE s[1] = DQ -> <<BSL, DQ>>
          [] s[1] = BSL -> <<BSL, BSL>>
          [] s[1] = NL -> <<BSL, "n">>
          [] s[1] = "\t" -> <<BSL, "t">>
          [] s[1] = "\r" -> <<BSL, "r">>
          [] OTHER -> <<s[1]>>) \o JsonEscape(Tail(s))

\* JSON.stringify(v): undefined properties are left out, undefined elements are null
RECURSIVE JsonStringify(_)
JsonStringify(v) ==
  CASE v.k = "string" -> <<DQ>> \o JsonEscape(v.s) \o <<DQ>>
    [] v.k = "number" -> IntToText(v.n)
    [] v.k = "boolean" -> IF v.b THEN tTrue ELSE tFalse
    [] v.k = "array" ->
         <<"[">> \o Join([i \in 1..Len(v.a) |->
                            IF v.a[i].k = "undefined" THEN tNull ELSE JsonStringify(v.a[i])],
                         <<",">>) \o <<"]">>
    [] v.k = "object" ->
         LET kept == SelectSeq(v.o, LAMBDA p : p[2].k # "undefined")
         IN  <<"{">> \o Join([i \in 1..Len(kept) |->
                                <<DQ>> \o JsonEscape(kept[i][1]) \o <<DQ, ":">>
                                  \o JsonStringify(kept[i][2])],
                             <<",">>) \o <<"}">>
    [] OTHER -> tNull

\* A parse step gives [ok |-> TRUE, v |-> value, next |-> position after it]
\* or [ok |-> FALSE].
JFail == [ok |-> FALSE]
JOk(v, next) == [ok |-> TRUE, v |-> v, next |-> next]

\* the characters of a string literal from position i (after the opening quote)
RECURSIVE JsonStringBody(_, _, _)
JsonStringBody(s, i, acc) ==
  IF i > Len(s) THEN JFail
  ELSE IF s[i] = DQ THEN JOk(JStr(acc), i + 1)
  ELSE IF s[i] \in {NL, "\t", "\r"} THEN JFail
  ELSE IF s[i] = BSL THEN
         IF i + 1 > Len(s) \/ s[i + 1] \notin {DQ, BSL, "/", "n", "t", "r"} THEN JFail
         ELSE JsonStringBody(s, i + 2,
                Append(acc, CASE s[i + 1] = "n" -> NL
                              [] s[i + 1] = "t" -> "\t"
                              [] s[i + 1] = "r" -> "\r"
                              [] OTHER -> s[i + 1]))
  ELSE JsonStringBody(s, i + 1, Append(acc, s[i]))

\* the end of a run of digits that starts at i
RECURSIVE DigitsEnd(_, _)
DigitsEnd(s, i) == IF i <= Len(s) /\ s[i] \in Digits THEN DigitsEnd(s, i + 1) ELSE i

\* the integer literal s[d..e-1], e the end of its digits: (0|[1-9][0-9]*)
JsonDigits(s, d, e, sign) ==
  IF e = d THEN JFail
  ELSE IF s[d] = "0" /\ e > d + 1 THEN JFail
  ELSE JOk(JNum(sign * DigitsToNat(SubSeq(s, d, e - 1))), e)

\* an integer literal at i, with its optional sign
JsonNumber(s, i) ==
  IF s[i] = "-" THEN JsonDigits(s, i + 1, DigitsEnd(s, i + 1), -1)
  ELSE JsonDigits(s, i, DigitsEnd(s, i), 1)

RECURSIVE JsonValue(_, _)
RECURSIVE JsonValueAt(_, _)
RECURSIVE JsonElements(_, _, _)
RECURSIVE JsonElementsAfter(_, _, _)
RECURSIVE JsonElementsNext(_, _, _)
RECURSIVE JsonMembers(_, _, _)
RECURSIVE JsonMemberColon(_, _, _)
RECURSIVE JsonMemberValue(_, _, _, _)
RECURSIVE JsonMemberAfter(_, _, _, _)
RECURSIVE JsonMembersNext(_, _, _)

\* a value at i, after optional whitespace
JsonValue(s, i) == JsonValueAt(s, SkipWs(s, i))

\* an array or an object opened at i: empty when j, the next token, closes it
JsonOpened(s, i, j) ==
  IF s[i] = "["
  THEN IF j <= Len(s) /\ s[j] = "]" THEN JOk(JArr(<<>>), j + 1)
       ELSE JsonElements(s, i + 1, <<>>)
  ELSE IF j <= Len(s) /\ s[j] = "}" THEN JOk(JObj(<<>>), j + 1)
       ELSE JsonMembers(s, i + 1, JObj(<<>>))

JsonValueAt(s, i) ==
  IF i > Len(s) THEN JFail
  ELSE CASE s[i] = DQ -> JsonStringBody(s, i + 1, <<>>)
         [] s[i] \in {"[", "{"} -> JsonOpened(s, i, SkipWs(s, i + 1))
         [] MatchAt(s, tTrue, i) -> JOk(JBool(TRUE), i + 4)
         [] MatchAt(s, tFalse, i) -> JOk(JBool(FALSE), i + 5)
         [] MatchAt(s, tNull, i) -> JOk(JNull, i + 4)
         [] s[i] = "-" \/ s[i] \in Digits -> JsonNumber(s, i)
         [] OTHER -> JFail

\* the elements of an array from i, up to and including its "]"
JsonElements(s, i, acc) == JsonElementsAfter(s, JsonValue(s, i), acc)

JsonElementsAfter(s, e, acc) ==
  IF ~e.ok THEN JFail ELSE JsonElementsNext(s, SkipWs(s, e.next), Append(acc, e.v))

JsonElementsNext(s, j, acc) ==
  IF j > Len(s) THEN JFail
  ELSE IF s[j] = "]" THEN JOk(JArr(acc), j + 1)
  ELSE IF s[j] = "," THEN JsonElements(s, j + 1, acc)
  ELSE JFail

\* the members of an object from i, up to and including its "}"
JsonMembers(s, i, acc) == JsonMemberColon(s, SkipWs(s, i), acc)

JsonMemberColon(s, i, acc) ==
  IF i > Len(s) \/ s[i] # DQ THEN JFail
  ELSE JsonMemberValue(s, JsonStringBody(s, i + 1, <<>>), acc, 0)

JsonMemberValue(s, key, acc, c) ==
  IF ~key.ok THEN JFail
  ELSE IF c = 0 THEN JsonMemberValue(s, key, acc, SkipWs(s, key.next))
  ELSE IF c > Len(s) \/ s[c] # ":" THEN JFail
  ELSE JsonMemberAfter(s, key.v.s, JsonValue(s, c + 1), acc)

JsonMemberAfter(s, name, e, acc) ==
  IF ~e.ok THEN JFail ELSE JsonMembersNext(s, SkipWs(s, e.next), SetProp(acc, name, e.v))

JsonMembersNext(s, j, obj) ==
  IF j > Len(s) THEN JFail
  ELSE IF s[j] = "}" THEN JOk(obj, j + 1)
  ELSE IF s[j] = "," THEN JsonMembers(s, j + 1, obj)
  ELSE JFail

\* the message of the SyntaxError JSON.parse throws
JsonSyntaxError == "SyntaxError: Unexpected token in JSON"

\* the whole text must be one value
JsonWhole(s, r) ==
  IF r.ok /\ SkipWs(s, r.next) > Len(s) THEN [ok |-> TRUE, v |-> r.v]
  ELSE [ok |-> FALSE, message |-> JsonSyntaxError]

\* JSON.parse(s): [ok |-> TRUE, v |-> value] or [ok |-> FALSE, message |-> ...]
JsonParse(s) == JsonWhole(s, JsonValue(s, 1))

(***************************************************************************)
(* Texts of the grammar                                                    *)
(***************************************************************************)
\* the letter a-ogonek of the default separator label, one character
AOgonek == "a-ogonek"

tText == <<"t","e","x","t">>
tTextarea == <<"t","e","x","t","a","r","e","a">>
tEmail == <<"e","m","a","i","l">>
tNumber == <<"n","u","m","b","e","r">>
tDate == <<"d","a","t","e">>
tSelect == <<"s","e","l","e","c","t">>
tRadio == <<"r","a","d","i","o">>
tCheckbox == <<"c","h","e","c","k","b","o","x">>
tFile == <<"f","i","l","e">>
tTable == <<"t","a","b","l","e">>
tSeparator == <<"s","e","p","a","r","a","t","o","r">>

tRequired == <<"r","e","q","u","i","r","e","d">>

kPlaceholder == <<"p","l","a","c","e","h","o","l","d","e","r">>
kOptions == <<"o","p","t","i","o","n","s">>
kAcceptedFileTypes == <<"a","c","c","e","p","t","e","d","F","i","l","e","T","y","p","e","s">>
kMaxFileSize == <<"m","a","x","F","i","l","e","S","i","z","e">>
kMultiple == <<"m","u","l","t","i","p","l","e">>
kColumns == <<"c","o","l","u","m","n","s">>

\* 'Belka dzielaca', the label of a separator written as ---
DefaultSeparatorLabel == <<"B","e","l","k","a"," ","d","z","i","e","l",AOgonek,"c","a">>
DefaultColumn1 == <<"K","o","l","u","m","n","a"," ","1">>
DefaultColumn2 == <<"K","o","l","u","m","n","a"," ","2">>

ChoiceTypes == {tSelect, tRadio, tCheckbox}

(***************************************************************************)
(* Error messages: a message is the sequence of its parts                  *)
(***************************************************************************)
MsgMissingHeader == <<"Pole musi rozpoczynac sie od naglowka ##">>
MsgEmptyLabel == <<"Etykieta pola nie moze byc pusta">>
MsgTypeRequired == <<"Typ pola jest wymagany w nawiasach kwadratowych [typ]">>
MsgInvalidType(typeStr) == <<"Nieprawidlowy typ pola: ", typeStr, ". Dostepne typy: ...">>
MsgInvalidJson(cause) ==
  <<"Nieprawidlowe wlasciwosci JSON: ", cause, ". Uzyj formatu: ...">>
MsgInvalidSyntax(inner) == <<"Nieprawidlowa skladnia wlasciwosci: ", "Error: ">> \o inner
MsgOptionsNotArray == <<"Opcje musza byc tablica">>
MsgMissingOptions(type) == <<"Typ pola '", type, "' wymaga wlasciwosci tablicy \"options\"">>
MsgFileTypesNotArray == <<"acceptedFileTypes musi byc tablica">>
MsgMaxFileSize == <<"maxFileSize musi byc liczba dodatnia">>
MsgEmptyColumns == <<"Tabela musi zawierac co najmniej jedna kolumne">>
MsgColumnsNotArray == <<"Kolumny tabeli musza byc tablica">>
MsgMissingColumns == <<"Typ pola \"table\" wymaga wlasciwosci tablicy \"columns\"">>
UnknownSection == <<"N","i","e","z","n","a","n","a"," ","s","e","k","c","j","a">>

\* a call returns a value or throws an Error with a message
Return(v) == [ok |-> TRUE, v |-> v]
Throw(message) == [ok |-> FALSE, message |-> message]

(***************************************************************************)
(* MarkdownFormParser: the parser                                          *)
(***************************************************************************)
\* mutant of IsRule: only the literal '---' is a rule
IsRule_ThreeOnly(t) == t = <<"-","-","-">>

\* /^-{3,}$/ (and the literal '---')
IsRule(t) == Len(t) >= 3 /\ \A i \in 1..Len(t) : t[i] = "-"

\* the loop of splitIntoSections over lines[i..]
RECURSIVE SplitLoop(_, _, _, _)
SplitLoop(lines, i, sections, currentSection) ==
  LET flushed == IF Len(currentSection) > 0
                 THEN Append(sections, Join(currentSection, <<NL>>))
                 ELSE sections
  IN  IF i > Len(lines) THEN flushed
      ELSE LET line == lines[i]
               trimmedLine == Trim(line)
           IN  IF StartsWith(trimmedLine, <<"#","#">>)
                 THEN SplitLoop(lines, i + 1, flushed, <<line>>)
               ELSE IF IsRule(trimmedLine)
                 THEN SplitLoop(lines, i + 1, flushed,
                                << <<"#","#"," ">> \o DefaultSeparatorLabel,
                                   <<"[">> \o tSeparator \o <<"]">> >>)
               ELSE IF Len(currentSection) > 0
                 THEN SplitLoop(lines, i + 1, sections, Append(currentSection, line))
               ELSE SplitLoop(lines, i + 1, sections, currentSection)

\* a splitter that opens a section with the first line, whatever it is
splitIntoSections_FromFirstLine(markdown) ==
  SelectSeq(SplitLoop(Split(markdown, NL), 2, <<>>, <<Split(markdown, NL)[1]>>),
            LAMBDA s : Len(Trim(s)) > 0)

splitIntoSections(markdown) ==
  SelectSeq(SplitLoop(Split(markdown, NL), 1, <<>>, <<>>), LAMBDA s : Len(Trim(s)) > 0)

\* The leftmost match of /\o([^\c]+)\c/ for an opening character o and a closing
\* character c: [found |-> TRUE, group |-> the text between] or [found |-> FALSE]
Bracketed(line, open, close) ==
  LET closeAfter(i) == {j \in (i + 1)..Len(line) : line[j] = close}
      starts == {i \in 1..Len(line) :
                   /\ line[i] = open
                   /\ closeAfter(i) # {}
                   /\ MinOf(closeAfter(i)) >= i + 2}
  IN  IF starts = {} THEN [found |-> FALSE]
      ELSE LET i == MinOf(starts)
           IN  [found |-> TRUE, group |-> SubSeq(line, i + 1, MinOf(closeAfter(i)) - 1)]

\* /^\s*\[[a-z]+\]/.test(line.trim())
isConfigLine(line) ==
  LET t == Trim(line)
      close == {j \in 2..Len(t) : t[j] = "]"}
  IN  /\ Len(t) >= 3
      /\ t[1] = "["
      /\ close # {}
      /\ MinOf(close) >= 3
      /\ \A j \in 2..(MinOf(close) - 1) : t[j] \in LowerLetters

\* mutant of isValidFieldType: every type is taken
isValidFieldType_Any(type) == TRUE

isValidFieldType(type) ==
  type \in {tText, tTextarea, tEmail, tNumber, tDate, tSelect, tRadio, tCheckbox,
            tFile, tTable, tSeparator}

\* mutant of RequiredAt: the i flag is missing
RequiredAt_CaseSensitive(line, i) ==
  LET w == SkipWs(line, i + 1)
      e == SkipWs(line, w + Len(tRequired))
      q == SkipWs(line, e + 1)
  IN  /\ line[i] = "("
      /\ MatchAt(line, tRequired, w)
      /\ e <= Len(line)
      /\ \/ line[e] = ")"
         \/ line[e] = "?" /\ q <= Len(line) /\ line[q] = ")"

\* /\(\s*required\s*\?\s*\)|\(\s*required\s*\)/i matched at position i
RequiredAt(line, i) ==
  LET w == SkipWs(line, i + 1)
      e == SkipWs(line, w + Len(tRequired))
      q == SkipWs(line, e + 1)
  IN  /\ line[i] = "("
      /\ MatchAt(ToLower(line), tRequired, w)
      /\ e <= Len(line)
      /\ \/ line[e] = ")"
         \/ line[e] = "?" /\ q <= Len(line) /\ line[q] = ")"

\* the regular expression's test(line)
RequiredTest(line) == \E i \in 1..Len(line) : RequiredAt(line, i)

\* the result of JSON.parse in parseProperties: the object, or the Error that
\* carries the SyntaxError's message.  (The text is wrapped in braces, so a
\* value that parses is an object.)
PropertiesParsed(parsed) ==
  IF parsed.ok THEN Return(parsed.v) ELSE Throw(MsgInvalidJson(parsed.message))

parseProperties(propertiesStr) ==
  IF Trim(propertiesStr) = <<>> THEN Return(JObj(<<>>))
  ELSE PropertiesParsed(JsonParse(<<"{">> \o propertiesStr \o <<"}">>))

\* parseConfigLine from the match of /\{([^}]+)\}/ on: the properties, or the
\* Error of parseProperties wrapped
ConfigProperties(propertiesMatch) ==
  IF propertiesMatch.found THEN parseProperties(propertiesMatch.group)
  ELSE Return(JObj(<<>>))

\* mutant of ConfigResult: properties that do not parse are dropped
ConfigResult_IgnoreBadProperties(type, required, properties) ==
  Return([type |-> type, required |-> required,
          properties |-> IF properties.ok THEN properties.v ELSE JObj(<<>>)])

ConfigResult(type, required, properties) ==
  IF ~properties.ok THEN Throw(MsgInvalidSyntax(properties.message))
  ELSE Return([type |-> type, required |-> required, properties |-> properties.v])

\* parseConfigLine from typeStr on
ConfigOfType(line, typeStr) ==
  IF ~isValidFieldType(typeStr) THEN Throw(MsgInvalidType(typeStr))
  ELSE ConfigResult(typeStr, RequiredTest(line),
                    ConfigProperties(Bracketed(line, "{", "}")))

\* parseConfigLine from the match of /\[([^\]]+)\]/ on
ConfigOfMatch(line, typeMatch) ==
  IF ~typeMatch.found THEN Throw(MsgTypeRequired)
  ELSE ConfigOfType(line, Trim(typeMatch.group))

parseConfigLine(line) == ConfigOfMatch(line, Bracketed(line, "[", "]"))

\* a parser that writes the generated identifier into the help text too
NewField_IdAsHelp(id, type, label, required, helpText) ==
  [id |-> id, type |-> type, label |-> label, required |-> required,
   helpText |-> JStr(id), placeholder |-> JUndefined, options |-> JUndefined,
   columns |-> JUndefined, acceptedFileTypes |-> JUndefined,
   maxFileSize |-> JUndefined, multiple |-> JUndefined]

\* a FormField: type and label are texts, required a boolean, the rest JavaScript
\* values (JUndefined when the property is not set)
NewField(id, type, label, required, helpText) ==
  [id |-> id, type |-> type, label |-> label, required |-> required,
   helpText |-> helpText, placeholder |-> JUndefined, options |-> JUndefined,
   columns |-> JUndefined, acceptedFileTypes |-> JUndefined,
   maxFileSize |-> JUndefined, multiple |-> JUndefined]

\* array.map(String)
MapString(arr) == JArr([i \in 1..Len(arr.a) |-> JStr(ToStr(arr.a[i]))])

\* v.length > 0 of an array or a text
NonEmptyValue(v) ==
  \/ v.k = "array" /\ Len(v.a) > 0
  \/ v.k = "string" /\ Len(v.s) > 0

\* mutant of ApplyTypeProperties: an empty options array counts as missing
ApplyTypeProperties_EmptyIsMissing(field, properties) ==
  LET options == GetProp(properties, kOptions)
      fileTypes == GetProp(properties, kAcceptedFileTypes)
      maxSize == GetProp(properties, kMaxFileSize)
      multiple == GetProp(properties, kMultiple)
      columns == GetProp(properties, kColumns)
  IN  CASE field.type \in ChoiceTypes ->
             IF Truthy(options) /\ NonEmptyValue(options)
             THEN IF IsArray(options)
                  THEN Return([field EXCEPT !.options = MapString(options)])
                  ELSE Throw(MsgOptionsNotArray)
             ELSE Throw(MsgMissingOptions(field.type))
        [] field.type = tFile ->
             IF Truthy(fileTypes) /\ ~IsArray(fileTypes) THEN Throw(MsgFileTypesNotArray)
             ELSE IF maxSize # JUndefined
                     /\ (ToNumber(maxSize) = JNaN \/ ToNumber(maxSize).n <= 0)
               THEN Throw(MsgMaxFileSize)
             ELSE Return([field EXCEPT
                    !.acceptedFileTypes =
                       IF Truthy(fileTypes) THEN MapString(fileTypes) ELSE @,
                    !.maxFileSize = IF maxSize # JUndefined THEN ToNumber(maxSize) ELSE @,
                    !.multiple = IF multiple # JUndefined THEN JBool(Truthy(multiple)) ELSE @])
        [] field.type = tTable ->
             IF Truthy(columns)
             THEN IF IsArray(columns)
                  THEN IF Len(columns.a) = 0 THEN Throw(MsgEmptyColumns)
                       ELSE Return([field EXCEPT !.columns = MapString(columns)])
                  ELSE Throw(MsgColumnsNotArray)
             ELSE Throw(MsgMissingColumns)
        [] OTHER -> Return(field)

\* mutant of ApplyTypeProperties: an empty columns array is accepted
ApplyTypeProperties_EmptyColumns(field, properties) ==
  LET options == GetProp(properties, kOptions)
      fileTypes == GetProp(properties, kAcceptedFileTypes)
      maxSize == GetProp(properties, kMaxFileSize)
      multiple == GetProp(properties, kMultiple)
      columns == GetProp(properties, kColumns)
  IN  CASE field.type \in ChoiceTypes ->
             IF Truthy(options)
             THEN IF IsArray(options)
                  THEN Return([field EXCEPT !.options = MapString(options)])
                  ELSE Throw(MsgOptionsNotArray)
             ELSE Throw(MsgMissingOptions(field.type))
        [] field.type = tFile ->
             IF Truthy(fileTypes) /\ ~IsArray(fileTypes) THEN Throw(MsgFileTypesNotArray)
             ELSE IF maxSize # JUndefined
                     /\ (ToNumber(maxSize) = JNaN \/ ToNumber(maxSize).n <= 0)
               THEN Throw(MsgMaxFileSize)
             ELSE Return([field EXCEPT
                    !.acceptedFileTypes =
                       IF Truthy(fileTypes) THEN MapString(fileTypes) ELSE @,
                    !.maxFileSize = IF maxSize # JUndefined THEN ToNumber(maxSize) ELSE @,
                    !.multiple = IF multiple # JUndefined THEN JBool(Truthy(multiple)) ELSE @])
        [] field.type = tTable ->
             IF Truthy(columns)
             THEN IF IsArray(columns)
                  THEN Return([field EXCEPT !.columns = MapString(columns)])
                  ELSE Throw(MsgColumnsNotArray)
             ELSE Throw(MsgMissingColumns)
        [] OTHER -> Return(field)

\* the switch of applyFieldProperties over the field's type
ApplyTypeProperties(field, properties) ==
  LET options == GetProp(properties, kOptions)
      fileTypes == GetProp(properties, kAcceptedFileTypes)
      maxSize == GetProp(properties, kMaxFileSize)
      multiple == GetProp(properties, kMultiple)
      columns == GetProp(properties, kColumns)
  IN  CASE field.type \in ChoiceTypes ->
             IF Truthy(options)
             THEN IF IsArray(options)
                  THEN Return([field EXCEPT !.options = MapString(options)])
                  ELSE Throw(MsgOptionsNotArray)
             ELSE Throw(MsgMissingOptions(field.type))
        [] field.type = tFile ->
             IF Truthy(fileTypes) /\ ~IsArray(fileTypes) THEN Throw(MsgFileTypesNotArray)
             ELSE IF maxSize # JUndefined
                     /\ (ToNumber(maxSize) = JNaN \/ ToNumber(maxSize).n <= 0)
               THEN Throw(MsgMaxFileSize)
             ELSE Return([field EXCEPT
                    !.acceptedFileTypes =
                       IF Truthy(fileTypes) THEN MapString(fileTypes) ELSE @,
                    !.maxFileSize = IF maxSize # JUndefined THEN ToNumber(maxSize) ELSE @,
                    !.multiple = IF multiple # JUndefined THEN JBool(Truthy(multiple)) ELSE @])
        [] field.type = tTable ->
             IF Truthy(columns)
             THEN IF IsArray(columns)
                  THEN IF Len(columns.a) = 0 THEN Throw(MsgEmptyColumns)
                       ELSE Return([field EXCEPT !.columns = MapString(columns)])
                  ELSE Throw(MsgColumnsNotArray)
             ELSE Throw(MsgMissingColumns)
        [] OTHER -> Return(field)

\* applyFieldProperties: the placeholder of any type, then the type's own properties
applyFieldProperties(field, properties) ==
  LET placeholder == GetProp(properties, kPlaceholder)
  IN  ApplyTypeProperties(
        IF Truthy(placeholder)
        THEN [field EXCEPT !.placeholder = JStr(ToStr(placeholder))]
        ELSE field,
        properties)

\* the loop of parseSection that finds the configuration line: lines before it are
\* put in front of helpTextLines (unshift), lines after it are appended (push)
RECURSIVE ScanSection(_, _, _, _, _)
ScanSection(lines, i, configLine, foundConfig, helpTextLines) ==
  IF i > Len(lines)
  THEN [configLine |-> configLine, helpTextLines |-> helpTextLines]
  ELSE IF ~foundConfig /\ isConfigLine(lines[i])
    THEN ScanSection(lines, i + 1, lines[i], TRUE, helpTextLines)
  ELSE IF foundConfig
    THEN ScanSection(lines, i + 1, configLine, foundConfig, Append(helpTextLines, lines[i]))
  ELSE ScanSection(lines, i + 1, configLine, foundConfig, <<lines[i]>> \o helpTextLines)

\* headerLine.replace(/^##\s*/, '').trim()
HeaderLabel(headerLine) ==
  IF StartsWith(headerLine, <<"#","#">>)
  THEN Trim(From(headerLine, SkipWs(headerLine, 3)))
  ELSE Trim(headerLine)

\* lines.map(line => line.trim()).filter(line => line.length > 0)
TrimmedLines(lines) ==
  SelectSeq([i \in 1..Len(lines) |-> Trim(lines[i])], LAMBDA line : Len(line) > 0)

\* the base field of parseSection with the properties applied, or the Error of
\* parseConfigLine
BuildField(id, label, config, helpText) ==
  IF ~config.ok THEN config
  ELSE applyFieldProperties(
         NewField(id, config.v.type, label, config.v.required,
                  IF helpText = <<>> THEN JUndefined ELSE JStr(helpText)),
         config.v.properties)

\* parseSection from the scan for the configuration line on
ParseScanned(id, label, scan) ==
  BuildField(id, label, parseConfigLine(scan.configLine),
             Trim(Join(scan.helpTextLines, <<" ">>)))

\* parseSection from the label on
ParseLabelled(lines, id, label) ==
  IF label = <<>> THEN Throw(MsgEmptyLabel)
  ELSE ParseScanned(id, label, ScanSection(lines, 2, <<>>, FALSE, <<>>))

\* parseSection from its trimmed, non-empty lines on
ParseLines(lines, id) ==
  IF Len(lines) = 0 THEN Return(JNull)
  ELSE IF ~StartsWith(lines[1], <<"#","#">>) THEN Throw(MsgMissingHeader)
  ELSE ParseLabelled(lines, id, HeaderLabel(lines[1]))

\* parseSection(section), id the identifier generated for the field: the field,
\* null (Return(JNull)) for a section without lines, or a thrown Error
parseSection(section, id) == ParseLines(TrimmedLines(Split(section, NL)), id)

\* the header line parseMarkdown's catch finds, and its label
LabelOfLines(sectionLines, headers) ==
  IF headers = {} THEN UnknownSection ELSE HeaderLabel(sectionLines[MinOf(headers)])

HeaderLines(sectionLines) ==
  {i \in 1..Len(sectionLines) : StartsWith(Trim(sectionLines[i]), <<"#","#">>)}

\* the label parseMarkdown reports for a section that failed
SectionLabelOf(sectionLines) == LabelOfLines(sectionLines, HeaderLines(sectionLines))

SectionLabel(section) == SectionLabelOf(Split(section, NL))

(***************************************************************************)
(* MarkdownFormParser: the exporter                                        *)
(***************************************************************************)
\* v && v.length > 0
NonEmpty(v) == NonEmptyValue(v)

MsgNullField == <<"Cannot read properties of null (reading 'type')">>

tCommentOpen == <<"<","!","-","-"," ">>
tCommentClose == <<" ","-","-",">">>

\* the properties object exportToMarkdown builds for a field, in insertion order
ExportProperties(field) ==
  LET p1 == IF Truthy(field.placeholder) THEN <<<<kPlaceholder, field.placeholder>>>>
            ELSE <<>>
      p2 == IF field.type \in ChoiceTypes
            THEN IF NonEmpty(field.options) THEN <<<<kOptions, field.options>>>>
                 ELSE <<<<kOptions, JArr(<<>>)>>>>
            ELSE IF NonEmpty(field.options) THEN <<<<kOptions, field.options>>>>
            ELSE <<>>
      p3 == IF NonEmpty(field.acceptedFileTypes)
            THEN <<<<kAcceptedFileTypes, field.acceptedFileTypes>>>> ELSE <<>>
      p4 == IF Truthy(field.maxFileSize) THEN <<<<kMaxFileSize, field.maxFileSize>>>>
            ELSE <<>>
      p5 == IF Truthy(field.multiple) THEN <<<<kMultiple, field.multiple>>>> ELSE <<>>
      p6 == IF field.type = tTable
            THEN IF NonEmpty(field.columns) THEN <<<<kColumns, field.columns>>>>
                 ELSE <<<<kColumns, JArr(<<JStr(DefaultColumn1), JStr(DefaultColumn2)>>)>>>>
            ELSE IF NonEmpty(field.columns) THEN <<<<kColumns, field.columns>>>>
            ELSE <<>>
  IN  JObj(p1 \o p2 \o p3 \o p4 \o p5 \o p6)

\* the text exportToMarkdown adds for one field
ExportField(field) ==
  IF field.type = tSeparator
  THEN (IF field.label # <<>> /\ field.label # DefaultSeparatorLabel
        THEN tCommentOpen \o field.label \o tCommentClose \o <<NL>> ELSE <<>>)
       \o (IF Truthy(field.helpText)
           THEN tCommentOpen \o ToStr(field.helpText) \o tCommentClose \o <<NL>> ELSE <<>>)
       \o <<"-","-","-",NL,NL>>
  ELSE LET properties == ExportProperties(field)
       IN  <<"#","#"," ">> \o field.label \o <<NL>>
           \o <<"[">> \o field.type \o <<"]">>
           \o (IF field.required THEN <<" ","(">> \o tRequired \o <<")">> ELSE <<>>)
           \o (IF Len(properties.o) > 0 THEN <<" ">> \o JsonStringify(properties) ELSE <<>>)
           \o <<NL>>
           \o (IF Truthy(field.helpText) THEN ToStr(field.helpText) \o <<NL>> ELSE <<>>)
           \o <<NL>>

\* exportToMarkdown(fields, formTitle, formDescription): the text, or the TypeError
\* of reading a property of a null element
exportToMarkdown(fields, formTitle, formDescription) ==
  IF \E i \in 1..Len(fields) : fields[i] = JNull THEN Throw(MsgNullField)
  ELSE Return(Trim(
         (IF Truthy(formTitle) THEN <<"#"," ">> \o ToStr(formTitle) \o <<NL,NL>> ELSE <<>>)
         \o (IF Truthy(formDescription) THEN ToStr(formDescription) \o <<NL,NL>> ELSE <<>>)
         \o Concat([i \in 1..Len(fields) |-> ExportField(fields[i])])))

\* an exporter that stores the forced options of a choice field in the field
ExportWrites_ForcedBack(field) ==
  IF field # JNull /\ field.type \in ChoiceTypes /\ field.options = JUndefined
  THEN [field EXCEPT !.options = JArr(<<>>)]
  ELSE field

\* the field after the callback of fields.forEach has run on it: the callback
\* assigns to markdown, fieldLine and properties only, and the arrays of the
\* field are handed to JSON.stringify, which reads them
ExportWrites(field) == field

(***************************************************************************)
(* The calls as a state machine                                            *)
(***************************************************************************)
VARIABLES
  op,         \* the public method called
  pc,         \* the position in it
  markdown,   \* parseMarkdown: the text to parse
  sections,   \* parseMarkdown: the result of splitIntoSections
  idx,        \* parseMarkdown: the section the loop is at (from 1)
  fields,     \* parseMarkdown: the fields collected so far
  errors,     \* parseMarkdown: the {section, error} entries collected so far
  origin,     \* for each collected field, the index of its section
  inFields,         \* validateExportFidelity: the argument fields
  formTitle,        \* validateExportFidelity: the argument formTitle
  formDescription,  \* validateExportFidelity: the argument formDescription
  vErrors,          \* validateExportFidelity: its errors array
  vWarnings,        \* validateExportFidelity: its warnings array
  cmp,              \* validateExportFidelity: the index the comparison is at (from 1)
  returned,         \* validateExportFidelity: the value returned
  formTemplate,           \* exportResponsesToMarkdown: the argument formTemplate
  responses,              \* exportResponsesToMarkdown: the argument responses
  includeFormDefinition,  \* exportResponsesToMarkdown: the argument of that name
  allFieldLabels,         \* exportResponsesToMarkdown: the Set of column labels
  fieldIdToLabel,         \* exportResponsesToMarkdown: the Map from field id to label
  ri                      \* exportResponsesToMarkdown: the response the loop is at (from 1)

parseVars == <<markdown, sections, idx, fields, errors, origin>>
validateVars == <<inFields, formTitle, formDescription, vErrors, vWarnings, cmp, returned>>
reportVars == <<formTemplate, responses, includeFormDefinition, allFieldLabels,
                fieldIdToLabel, ri>>
vars == <<op, pc, parseVars, validateVars, reportVars>>

\* the identifiers the generator of parseSection may give (a time stamp and a
\* random suffix in the code)
FieldIds == {<<"f","1">>, <<"f","2">>}

\* mutant of CatchSection: no try/catch around parseSection
CatchSection_Uncaught(section, r, fs, es) ==
  IF r.ok
  THEN [fields |-> IF r.v = JNull THEN fs ELSE Append(fs, r.v),
        errors |-> es, pushed |-> r.v # JNull, threw |-> FALSE]
  ELSE [fields |-> fs, errors |-> es, pushed |-> FALSE, threw |-> TRUE]

\* The body of parseMarkdown's loop for one section, r the outcome of
\* parseSection: push the field, or catch the Error and push {section, error}.
\* threw: an exception left the body.
CatchSection(section, r, fs, es) ==
  IF r.ok
  THEN [fields |-> IF r.v = JNull THEN fs ELSE Append(fs, r.v),
        errors |-> es, pushed |-> r.v # JNull, threw |-> FALSE]
  ELSE [fields |-> fs,
        errors |-> Append(es, [section |-> SectionLabel(section), error |-> r.message]),
        pushed |-> FALSE, threw |-> FALSE]

ParseCaught(section, id, fs, es) ==
  CatchSection(section, parseSection(section, id), fs, es)

\* the effect of one iteration on the state
ParseEffect(out) ==
  /\ fields' = out.fields
  /\ errors' = out.errors
  /\ origin' = IF out.pushed THEN Append(origin, idx) ELSE origin
  /\ pc' = IF out.threw THEN "threw" ELSE "parse_loop"

\* const sections = this.splitIntoSections(markdown)
ParseCall ==
  /\ pc = "parse_call"
  /\ sections' = splitIntoSections(markdown)
  /\ idx' = 1
  /\ fields' = <<>>
  /\ errors' = <<>>
  /\ origin' = <<>>
  /\ pc' = "parse_loop"
  /\ UNCHANGED <<op, markdown, validateVars, reportVars>>

\* one iteration of for (const section of sections)
ParseStep ==
  /\ pc = "parse_loop"
  /\ idx <= Len(sections)
  /\ \E id \in FieldIds : ParseEffect(ParseCaught(sections[idx], id, fields, errors))
  /\ idx' = idx + 1
  /\ UNCHANGED <<op, markdown, sections, validateVars, reportVars>>

\* return { fields, errors }
ParseReturn ==
  /\ pc = "parse_loop"
  /\ idx > Len(sections)
  /\ pc' = IF op = "parseMarkdown" THEN "done" ELSE "reimported"
  /\ UNCHANGED <<op, parseVars, validateVars, reportVars>>

\* validateExportFidelity is not running
ValidateIdle ==
  /\ inFields = <<>>
  /\ formTitle = JUndefined
  /\ formDescription = JUndefined
  /\ vErrors = <<>>
  /\ vWarnings = <<>>
  /\ cmp = 0
  /\ returned = JUndefined

\* exportResponsesToMarkdown is not running
ReportIdle ==
  /\ formTemplate = JUndefined
  /\ responses = <<>>
  /\ includeFormDefinition = TRUE
  /\ allFieldLabels = <<>>
  /\ fieldIdToLabel = <<>>
  /\ ri = 0

(***************************************************************************)
(* Documents parseMarkdown is called with                                  *)
(***************************************************************************)
\* the number of blocks of a document
MaxBlocks == 4

LineA == <<"#","#"," ","A">>
LineText == <<"[","t","e","x","t","]">>
LineBad == <<"#","#"," ","B","a","d">>
LineNoType == <<"n","o"," ","t","y","p","e"," ","h","e","r","e">>
LineRule == <<"-","-","-">>
LineRule5 == <<"-","-","-","-","-">>
LineNote == <<"n","o","t","e">>

\* a block is the lines of one section, or a rule with the lines after it
BlkText == <<LineA, LineText>>
BlkNoType == <<LineBad, LineNoType>>
BlkRule == <<LineRule>>
BlkRuleNote == <<LineRule5, LineNote>>

BlockPool == {BlkText, BlkNoType, BlkRule, BlkRuleNote}

BlockSeqs == UNION {[1..n -> BlockPool] : n \in 0..MaxBlocks}

\* the text of a sequence of blocks: their lines joined by line breaks
DocOf(blocks) == Join(Concat(blocks), <<NL>>)

InitParse ==
  /\ op = "parseMarkdown"
  /\ pc = "parse_call"
  /\ markdown \in {DocOf(b) : b \in BlockSeqs}
  /\ sections = <<>>
  /\ idx = 0
  /\ fields = <<>>
  /\ errors = <<>>
  /\ origin = <<>>
  /\ ValidateIdle
  /\ ReportIdle

NextParse == ParseCall \/ ParseStep \/ ParseReturn

SpecParse == InitParse /\ [][NextParse]_vars

(***************************************************************************)
(* Two calls of parseMarkdown on one document, the fields of each exported *)
(***************************************************************************)
\* the number of blocks of a document that is parsed twice
MaxTwice == 2

TwiceSeqs == UNION {[1..n -> BlockPool] : n \in 0..MaxTwice}

InitTwice ==
  /\ op = "parseMarkdown"
  /\ pc = "parse_call"
  /\ markdown \in {DocOf(b) : b \in TwiceSeqs}
  /\ sections = <<>>
  /\ idx = 0
  /\ fields = <<>>
  /\ errors = <<>>
  /\ origin = <<>>
  /\ inFields = <<>>
  /\ formTitle \in {JUndefined, JStr(<<"T">>)}
  /\ formDescription = JUndefined
  /\ vErrors = <<>>
  /\ vWarnings = <<>>
  /\ cmp = 0
  /\ returned = JUndefined
  /\ ReportIdle

\* the first call has returned: its result and the export of its fields are
\* kept, and parseMarkdown is called again with the same document
ParseAgain ==
  /\ op = "parseMarkdown"
  /\ pc = "done"
  /\ returned = JUndefined
  /\ returned' = [fields |-> fields, errors |-> errors,
                  text |-> exportToMarkdown(fields, formTitle, formDescription)]
  /\ pc' = "parse_call"
  /\ UNCHANGED <<op, parseVars, inFields, formTitle, formDescription, vErrors, vWarnings,
                 cmp, reportVars>>

NextTwice == ParseCall \/ ParseStep \/ ParseReturn \/ ParseAgain

SpecTwice == InitTwice /\ [][NextTwice]_vars

(***************************************************************************)
(* Documents made of any lines: headers, rules, and lines that are neither *)
(***************************************************************************)
\* the number of lines of a document
MaxLines == 3

LineIndented == <<" "," ","#","#"," ","B">>
LineHashes == <<"#","#">>
LineRulePadded == <<" ","-","-","-","-"," ">>
LineDashes == <<"-","-">>
LineBlank == <<>>

LinePool == {LineA, LineIndented, LineHashes, LineText, LineRule, LineRulePadded,
             LineDashes, LineNote, LineBlank}

LineSeqs == UNION {[1..n -> LinePool] : n \in 0..MaxLines}

InitAnyLines ==
  /\ op = "parseMarkdown"
  /\ pc = "parse_call"
  /\ markdown \in {Join(l, <<NL>>) : l \in LineSeqs}
  /\ sections = <<>>
  /\ idx = 0
  /\ fields = <<>>
  /\ errors = <<>>
  /\ origin = <<>>
  /\ ValidateIdle
  /\ ReportIdle

SpecAnyLines == InitAnyLines /\ [][NextParse]_vars

(***************************************************************************)
(* Single sections parseMarkdown is called with: a header, then a          *)
(* configuration line [type] + a required marker + a properties block      *)
(***************************************************************************)
TypePool == {tText, tTextarea, tEmail, tNumber, tDate, tSelect, tRadio, tCheckbox,
             tFile, tTable, tSeparator}

ReqNone == <<>>
ReqPlain == <<" ","(","r","e","q","u","i","r","e","d",")">>
ReqQuestion == <<" ","(","r","e","q","u","i","r","e","d","?",")">>
ReqUpper == <<" ","(","R","E","Q","U","I","R","E","D",")">>
ReqMixed == <<" ","(","R","e","q","u","i","r","e","d","?",")">>
ReqPadded == <<" ","("," ","r","e","q","u","i","r","e","d"," ",")">>
ReqPaddedQuestion == <<" ","(","r","e","q","u","i","r","e","d"," ","?",")">>
ReqShort == <<" ","(","r","e","q","u","i","r","e",")">>
ReqBare == <<" ","r","e","q","u","i","r","e","d">>
ReqOpen == <<" ","(","r","e","q","u","i","r","e","d">>

RequiredPool == {ReqNone, ReqPlain, ReqQuestion, ReqUpper, ReqMixed, ReqPadded,
                 ReqPaddedQuestion, ReqShort, ReqBare, ReqOpen}

PropsNone == <<>>
PropsEmpty == <<" ","{","}">>
PropsPlaceholder == <<" ","{",DQ,"p","l","a","c","e","h","o","l","d","e","r",DQ,":"," ",DQ,"p",DQ,"}">>
PropsOptionsEmpty == <<" ","{",DQ,"o","p","t","i","o","n","s",DQ,":"," ","[","]","}">>
PropsOptions == <<" ","{",DQ,"o","p","t","i","o","n","s",DQ,":"," ","[",DQ,"a",DQ,"]","}">>
PropsOptionsUnquoted == <<" ","{","o","p","t","i","o","n","s",":"," ","[",DQ,"a",DQ,"]","}">>
PropsOptionsSingleQuoted == <<" ","{","'","o","p","t","i","o","n","s","'",":"," ","[","'","a","'","]","}">>
PropsOptionsTrailingComma == <<" ","{",DQ,"o","p","t","i","o","n","s",DQ,":"," ","[",DQ,"a",DQ,"]",",","}">>
PropsOptionsString == <<" ","{",DQ,"o","p","t","i","o","n","s",DQ,":"," ",DQ,"a",DQ,"}">>
PropsOptionsNull == <<" ","{",DQ,"o","p","t","i","o","n","s",DQ,":"," ","n","u","l","l","}">>
PropsColumnsEmpty == <<" ","{",DQ,"c","o","l","u","m","n","s",DQ,":"," ","[","]","}">>
PropsColumnsOne == <<" ","{",DQ,"c","o","l","u","m","n","s",DQ,":"," ","[",DQ,"A",DQ,"]","}">>
PropsColumnsTwo == <<" ","{",DQ,"c","o","l","u","m","n","s",DQ,":"," ","[",DQ,"B",DQ,","," ",DQ,"A",DQ,"]","}">>
PropsColumnsString == <<" ","{",DQ,"c","o","l","u","m","n","s",DQ,":"," ",DQ,"A",DQ,"}">>
PropsTypesString == <<" ","{",DQ>> \o kAcceptedFileTypes \o <<DQ,":"," ",DQ,"a",DQ,"}">>
PropsTypesNumber == <<" ","{",DQ>> \o kAcceptedFileTypes \o <<DQ,":"," ","7","}">>
PropsTypesNull == <<" ","{",DQ>> \o kAcceptedFileTypes \o <<DQ,":"," ","n","u","l","l","}">>
PropsTypesArray == <<" ","{",DQ>> \o kAcceptedFileTypes \o <<DQ,":"," ","[",DQ,"a",DQ,","," ","7","]","}">>

PropsPool == {PropsNone, PropsEmpty, PropsPlaceholder, PropsOptionsEmpty, PropsOptions,
              PropsOptionsUnquoted, PropsOptionsSingleQuoted, PropsOptionsTrailingComma,
              PropsOptionsString, PropsOptionsNull, PropsColumnsEmpty, PropsColumnsOne,
              PropsColumnsTwo, PropsColumnsString, PropsTypesString, PropsTypesNumber,
              PropsTypesNull, PropsTypesArray}

LineX == <<"#","#"," ","X">>
LabelX == <<"X">>

ConfigLineOf(type, req, props) == <<"[">> \o type \o <<"]">> \o req \o props

SectionDoc(type, req, props) == LineX \o <<NL>> \o ConfigLineOf(type, req, props)

InitSection ==
  /\ op = "parseMarkdown"
  /\ pc = "parse_call"
  /\ markdown \in {SectionDoc(t, r, p) : t \in TypePool, r \in RequiredPool, p \in PropsPool}
  /\ sections = <<>>
  /\ idx = 0
  /\ fields = <<>>
  /\ errors = <<>>
  /\ origin = <<>>
  /\ ValidateIdle
  /\ ReportIdle

SpecSection == InitSection /\ [][NextParse]_vars

(***************************************************************************)
(* Sections parseMarkdown is called with, line by line: a header, lines     *)
(* before the configuration line, that line, and lines after it             *)
(***************************************************************************)
\* the number of lines before, and after, the configuration line
MaxHelp == 2

HdrX == <<"#","#"," ","X">>
HdrTight == <<"#","#","X">>
HdrPadded == <<" ","#","#"," "," ","X"," ">>
HdrBare == <<"#","#">>
HdrBlank == <<"#","#"," "," ">>

HeaderPool == {HdrX, HdrTight, HdrPadded, HdrBare, HdrBlank}

\* the headers without a label
EmptyHeaders == {HdrBare, HdrBlank}

CfgText == <<"[","t","e","x","t","]">>
CfgSeparator == <<"[","s","e","p","a","r","a","t","o","r","]">>
CfgTable == <<"[","t","a","b","l","e","]"," ","{",DQ,"c","o","l","u","m","n","s",DQ,":","[",DQ,"A",DQ,"]","}">>
CfgUnknown == <<"[","f","o","o","]">>
CfgUpper == <<"[","T","e","x","t","]">>
CfgSpaced == <<"[","t","e","x","t"," ","]">>
CfgEmpty == <<"[","]">>
CfgWord == <<"t","e","x","t">>
CfgNone == <<>>

ConfigPool == {CfgText, CfgSeparator, CfgTable, CfgUnknown, CfgUpper, CfgSpaced, CfgEmpty,
               CfgWord, CfgNone}

\* the configuration lines with a type of the enumeration
ValidConfigs == {CfgText, CfgSeparator, CfgTable}

\* the lines isConfigLine does not take for a configuration line: the section
\* has no [type] token the parser can read
NoTypeConfigs == {CfgUpper, CfgSpaced, CfgEmpty, CfgWord, CfgNone}

BeforePool == {<<"p">>, <<"q","q">>}
AfterPool == {<<"a">>, <<"b","b">>}

HelpSeqs(pool) == UNION {[1..n -> pool] : n \in 0..MaxHelp}

\* the text of the section: its lines, an absent configuration line left out
LinesDoc(header, before, config, after) ==
  Join(<<header>> \o before \o (IF config = <<>> THEN <<>> ELSE <<config>>) \o after, <<NL>>)

InitLines ==
  /\ op = "parseMarkdown"
  /\ pc = "parse_call"
  /\ markdown \in {LinesDoc(h, b, c, a) : h \in HeaderPool, b \in HelpSeqs(BeforePool),
                                          c \in ConfigPool, a \in HelpSeqs(AfterPool)}
  /\ sections = <<>>
  /\ idx = 0
  /\ fields = <<>>
  /\ errors = <<>>
  /\ origin = <<>>
  /\ ValidateIdle
  /\ ReportIdle

SpecLines == InitLines /\ [][NextParse]_vars

(***************************************************************************)
(* MarkdownFormParser.validateExportFidelity                               *)
(***************************************************************************)
MsgNullLength == <<"Cannot read properties of null (reading 'length')">>

\* a === b of two values: objects and arrays are equal by identity only, and the
\* two sides never hold the same object here
StrictEquals(a, b) == a.k \notin {"NaN", "array", "object"} /\ a = b

\* v.length
LengthOf(v) ==
  CASE v.k = "array" -> JNum(Len(v.a))
    [] v.k = "string" -> JNum(Len(v.s))
    [] OTHER -> JUndefined

\* v[i - 1]
ElementOf(v, i) ==
  CASE v.k = "array" -> v.a[i]
    [] v.k = "string" -> JStr(<<v.s[i]>>)
    [] OTHER -> JUndefined

\* arraysEqual(arr1, arr2): a boolean, or the TypeError of null.length
arraysEqual(arr1, arr2) ==
  IF arr1 = JUndefined /\ arr2 = JUndefined THEN Return(TRUE)
  ELSE IF arr1 = JUndefined \/ arr2 = JUndefined THEN Return(FALSE)
  ELSE IF arr1 = JNull \/ arr2 = JNull THEN Throw(MsgNullLength)
  ELSE IF LengthOf(arr1) # LengthOf(arr2) THEN Return(FALSE)
  ELSE IF LengthOf(arr1) = JUndefined THEN Return(TRUE)
  ELSE Return(\A i \in 1..LengthOf(arr1).n :
                StrictEquals(ElementOf(arr1, i), ElementOf(arr2, i)))

\* an entry of the errors array
Mismatch(fieldId, fieldLabel, property, original, reimported, error) ==
  [fieldId |-> fieldId, fieldLabel |-> fieldLabel, property |-> property,
   original |-> original, reimported |-> reimported, error |-> error]

\* if (original.p !== reimported.p) errors.push(...); acc is the comparison so
\* far: its errors and whether it is still running (no exception yet)
CheckStrict(acc, f, property, original, reimported, error) ==
  IF acc.ok /\ ~StrictEquals(original, reimported)
  THEN [acc EXCEPT !.errors = Append(@, Mismatch(f.id, f.label, property, original,
                                                 reimported, error))]
  ELSE acc

\* the outcome e of arraysEqual added to the comparison
CheckOutcome(acc, e, entry) ==
  IF ~e.ok THEN [acc EXCEPT !.ok = FALSE, !.message = e.message]
  ELSE IF e.v THEN acc
  ELSE [acc EXCEPT !.errors = Append(@, entry)]

\* if (!this.arraysEqual(original.p, reimported.p)) errors.push(...)
CheckArrays(acc, f, property, original, reimported, error) ==
  IF ~acc.ok THEN acc
  ELSE CheckOutcome(acc, arraysEqual(original, reimported),
                    Mismatch(f.id, f.label, property, original, reimported, error))

\* a comparison of the label, the type and the required flag only
CompareField_BasicOnly(o, r) ==
  CheckStrict(
  CheckStrict(
  CheckStrict([ok |-> TRUE, errors |-> <<>>, message |-> <<>>],
    o, "label", JStr(o.label), JStr(r.label), "Label mismatch"),
    o, "type", JStr(o.type), JStr(r.type), "Type mismatch"),
    o, "required", JBool(o.required), JBool(r.required), "Required status mismatch")

\* the body of the comparison loop for one pair of fields: the entries it pushes,
\* and the message of the exception that ended it, if one did
CompareField(o, r) ==
  CheckStrict(
  CheckStrict(
  CheckArrays(
  CheckArrays(
  CheckArrays(
  CheckStrict(
  CheckStrict(
  CheckStrict(
  CheckStrict(
  CheckStrict([ok |-> TRUE, errors |-> <<>>, message |-> <<>>],
    o, "label", JStr(o.label), JStr(r.label), "Label mismatch"),
    o, "type", JStr(o.type), JStr(r.type), "Type mismatch"),
    o, "required", JBool(o.required), JBool(r.required), "Required status mismatch"),
    o, "helpText", o.helpText, r.helpText, "Help text mismatch"),
    o, "placeholder", o.placeholder, r.placeholder, "Placeholder mismatch"),
    o, "options", o.options, r.options, "Options array mismatch"),
    o, "columns", o.columns, r.columns, "Columns array mismatch"),
    o, "acceptedFileTypes", o.acceptedFileTypes, r.acceptedFileTypes,
       "Accepted file types mismatch"),
    o, "maxFileSize", o.maxFileSize, r.maxFileSize, "Max file size mismatch"),
    o, "multiple", o.multiple, r.multiple, "Multiple files flag mismatch")

\* the entry the catch block pushes
ProcessError(message) ==
  Mismatch(<<"all">>, <<"Export/Import Process">>, "process", JStr(<<"successful">>),
           JStr(<<"failed">>), <<"Export/import failed: ">> \o message)

\* mutant of CatchProcess: the exception is swallowed
CatchProcess_Swallow(es, r) == es

\* catch (error) { errors.push(...) }, r the outcome of the guarded code
CatchProcess(es, r) == IF r.ok THEN es ELSE Append(es, ProcessError(r.message))

\* the entry pushed when the numbers of fields differ
CountError(expected, got) ==
  Mismatch(<<"all">>, <<"Form Structure">>, "field_count", JNum(expected), JNum(got),
           <<"Field count mismatch: expected ">> \o NatToText(expected)
             \o <<", got ">> \o NatToText(got))

\* the warning made of an entry of parseResult.errors
ParseWarning(e) ==
  [fieldId |-> <<"unknown">>, fieldLabel |-> e.section,
   message |-> <<"Parse error in section '">> \o e.section \o <<"': ">> \o e.error]

\* a validator that reports the section errors of the re-import as errors
ImportOutcome_Fatal(es, ws, parseErrors) ==
  [errors |-> es \o [i \in 1..Len(parseErrors) |->
                       Mismatch(<<"unknown">>, parseErrors[i].section, "parse",
                                JUndefined, JUndefined, parseErrors[i].error)],
   warnings |-> ws]

\* parseResult.errors.forEach(error => { warnings.push({...}) }): the errors and
\* the warnings after it
ImportOutcome(es, ws, parseErrors) ==
  [errors |-> es,
   warnings |-> ws \o [i \in 1..Len(parseErrors) |-> ParseWarning(parseErrors[i])]]

\* the effect of the export, r its outcome
ExportEffect(r) ==
  /\ markdown' = IF r.ok THEN r.v ELSE markdown
  /\ vErrors' = CatchProcess(vErrors, r)
  /\ pc' = IF r.ok THEN "parse_call" ELSE "validate_return"

\* const exportedMarkdown = this.exportToMarkdown(fields, formTitle, formDescription)
ValidateExport ==
  /\ pc = "validate_call"
  /\ ExportEffect(exportToMarkdown(inFields, formTitle, formDescription))
  /\ inFields' = [i \in 1..Len(inFields) |-> ExportWrites(inFields[i])]
  /\ UNCHANGED <<op, sections, idx, fields, errors, origin>>
  /\ UNCHANGED <<formTitle, formDescription, vWarnings, cmp, returned, reportVars>>

\* after parseMarkdown has returned: the warnings and the comparison of the counts
ValidateImported ==
  /\ pc = "reimported"
  /\ vWarnings' = ImportOutcome(vErrors, vWarnings, errors).warnings
  /\ vErrors' = IF Len(inFields) # Len(fields)
                THEN Append(ImportOutcome(vErrors, vWarnings, errors).errors,
                            CountError(Len(inFields), Len(fields)))
                ELSE ImportOutcome(vErrors, vWarnings, errors).errors
  /\ cmp' = 1
  /\ pc' = "compare"
  /\ UNCHANGED <<op, parseVars, inFields, formTitle, formDescription, returned, reportVars>>

\* the effect of one iteration of the comparison loop, out its outcome
CompareEffect(out) ==
  /\ vErrors' = CatchProcess(vErrors \o out.errors, out)
  /\ pc' = IF out.ok THEN "compare" ELSE "validate_return"

\* one iteration of for (let i = 0; i < minLength; i++)
ValidateCompare ==
  /\ pc = "compare"
  /\ cmp <= MinOf({Len(inFields), Len(fields)})
  /\ CompareEffect(CompareField(inFields[cmp], fields[cmp]))
  /\ cmp' = cmp + 1
  /\ UNCHANGED <<op, parseVars, inFields, formTitle, formDescription, vWarnings, returned,
               reportVars>>

\* return { isValid: errors.length === 0, errors, warnings }
ValidateReturn ==
  /\ \/ pc = "validate_return"
     \/ pc = "compare" /\ cmp > MinOf({Len(inFields), Len(fields)})
  /\ returned' = [isValid |-> Len(vErrors) = 0, errors |-> vErrors, warnings |-> vWarnings]
  /\ pc' = "returned"
  /\ UNCHANGED <<op, parseVars, inFields, formTitle, formDescription, vErrors, vWarnings, cmp,
               reportVars>>

(***************************************************************************)
(* Field lists validateExportFidelity is called with                       *)
(***************************************************************************)
\* the number of fields of a list
MaxFields == 2

\* a field with every property given
FieldOf(id, type, label, required, helpText, placeholder, options, columns, acceptedFileTypes, maxFileSize, multiple) ==
  [id |-> id, type |-> type, label |-> label, required |-> required,
   helpText |-> helpText, placeholder |-> placeholder, options |-> options,
   columns |-> columns, acceptedFileTypes |-> acceptedFileTypes,
   maxFileSize |-> maxFileSize, multiple |-> multiple]

U == JUndefined

FText ==
  FieldOf(<<"a">>, tText, <<"A">>, TRUE, JStr(<<"h">>), JStr(<<"p">>), U, U, U, U, U)
FSelect ==
  FieldOf(<<"b">>, tSelect, <<"B">>, FALSE, U, U, JArr(<<JStr(<<"x">>), JStr(<<"y">>)>>),
          U, U, U, U)
FSelectEmpty ==
  FieldOf(<<"c">>, tRadio, <<"C">>, FALSE, U, U, JArr(<<>>), U, U, U, U)
FSelectNoOptions ==
  FieldOf(<<"d">>, tCheckbox, <<"D">>, TRUE, U, U, U, U, U, U, U)
FSelectBrace ==
  FieldOf(<<"e">>, tSelect, <<"E">>, FALSE, U, JStr(<<"a","}","b">>), U, U, U, U, U)
FSelectNullOptions ==
  FieldOf(<<"f">>, tSelect, <<"F">>, FALSE, U, U, JNull, U, U, U, U)
FTable ==
  FieldOf(<<"g">>, tTable, <<"G">>, FALSE, U, U, U, JArr(<<JStr(<<"B">>), JStr(<<"A">>)>>),
          U, U, U)
FTableNoColumns ==
  FieldOf(<<"h">>, tTable, <<"H">>, FALSE, U, U, U, U, U, U, U)
FTableEmpty ==
  FieldOf(<<"i">>, tTable, <<"I">>, FALSE, U, U, U, JArr(<<>>), U, U, U)
FFile ==
  FieldOf(<<"j">>, tFile, <<"J">>, FALSE, U, U, U, U, JArr(<<JStr(<<".","p","d","f">>)>>),
          JNum(5), JBool(TRUE))
FFileSingle ==
  FieldOf(<<"k">>, tFile, <<"K">>, FALSE, U, U, U, U, U, U, JBool(FALSE))
FSeparator ==
  FieldOf(<<"l">>, tSeparator, DefaultSeparatorLabel, FALSE, U, U, U, U, U, U, U)
FSeparatorNamed ==
  FieldOf(<<"m">>, tSeparator, <<"S">>, FALSE, JStr(<<"h">>), U, U, U, U, U, U)
FSeparatorNoted ==
  FieldOf(<<"n">>, tSeparator, DefaultSeparatorLabel, FALSE, JStr(<<"h">>), U, U, U, U, U, U)

\* the elements of a list: fields, and null
FieldPool == {FText, FSelect, FSelectEmpty, FSelectNoOptions, FSelectBrace,
              FSelectNullOptions, FTable, FTableNoColumns, FTableEmpty, FFile,
              FFileSingle, FSeparator, FSeparatorNamed, FSeparatorNoted, JNull}

FieldLists == UNION {[1..n -> FieldPool] : n \in 0..MaxFields}

TitlePool == {JUndefined, JStr(<<"T">>)}

InitFidelity ==
  /\ op = "validateExportFidelity"
  /\ pc = "validate_call"
  /\ markdown = <<>>
  /\ sections = <<>>
  /\ idx = 0
  /\ fields = <<>>
  /\ errors = <<>>
  /\ origin = <<>>
  /\ inFields \in FieldLists
  /\ formTitle \in TitlePool
  /\ formDescription = JUndefined
  /\ vErrors = <<>>
  /\ vWarnings = <<>>
  /\ cmp = 0
  /\ returned = JUndefined
  /\ ReportIdle

NextFidelity ==
  \/ ValidateExport
  \/ ParseCall
  \/ ParseStep
  \/ ParseReturn
  \/ ValidateImported
  \/ ValidateCompare
  \/ ValidateReturn

SpecFidelity == InitFidelity /\ [][NextFidelity]_vars

(***************************************************************************)
(* Field lists, titles and descriptions whose texts hold the characters of *)
(* the markdown syntax                                                     *)
(***************************************************************************)
\* the number of fields of such a list
MaxTexts == 2

tRequiredWord == <<"(","r","e","q","u","i","r","e","d",")">>

FPlain ==
  FieldOf(<<"p">>, tText, <<"P">>, FALSE, U, U, U, U, U, U, U)
FWordPlaceholder ==
  FieldOf(<<"w">>, tText, <<"W">>, FALSE, U, JStr(tRequiredWord), U, U, U, U, U)
FWordOptions ==
  FieldOf(<<"o">>, tSelect, <<"O">>, FALSE, U, U, JArr(<<JStr(tRequiredWord)>>), U, U, U, U)
FBraces ==
  FieldOf(<<"c">>, tText, <<"C">>, FALSE, U, JStr(<<"{","x","}">>), U, U, U, U, U)
FOpenBrace ==
  FieldOf(<<"d">>, tText, <<"D">>, FALSE, U, JStr(<<"a","{","b">>), U, U, U, U, U)

TextFieldPool == {FPlain, FWordPlaceholder, FWordOptions, FBraces, FOpenBrace}

TextLists == UNION {[1..n -> TextFieldPool] : n \in 0..MaxTexts}

\* a title of one line, and one whose second line starts with ##
TitleHeader == JStr(<<"T",NL,"#","#"," ","Z">>)
TextTitlePool == {JUndefined, JStr(<<"T">>), TitleHeader}

\* a description that is a line of hyphens
DescriptionRule == JStr(<<"-","-","-">>)
TextDescriptionPool == {JUndefined, DescriptionRule}

InitTexts ==
  /\ op = "validateExportFidelity"
  /\ pc = "validate_call"
  /\ markdown = <<>>
  /\ sections = <<>>
  /\ idx = 0
  /\ fields = <<>>
  /\ errors = <<>>
  /\ origin = <<>>
  /\ inFields \in TextLists
  /\ formTitle \in TextTitlePool
  /\ formDescription \in TextDescriptionPool
  /\ vErrors = <<>>
  /\ vWarnings = <<>>
  /\ cmp = 0
  /\ returned = JUndefined
  /\ ReportIdle

SpecTexts == InitTexts /\ [][NextFidelity]_vars

(***************************************************************************)
(* MarkdownFormParser.exportResponsesToMarkdown                            *)
(***************************************************************************)
\* the Polish letters of the report's fixed texts, one character each
LStroke == "l-stroke"
LStrokeUpper == "L-stroke"
EOgonek == "e-ogonek"
ZAcute == "z-acute"
\* the grave accent that opens and closes a code span, one character
Backtick == "grave"

tReportTitle == <<"#"," ","O","d","p","o","w","i","e","d","z","i"," ","F","o","r","m","u","l","a","r","z","a",":"," ">>
tExportDate == <<"*","*","D","a","t","a"," ","e","k","s","p","o","r","t","u",":","*","*"," ">>
tResponseCount == <<"*","*","L","i","c","z","b","a"," ","o","d","p","o","w","i","e","d","z","i",":","*","*"," ">>
tDefinition == <<"#","#"," ","D","e","f","i","n","i","c","j","a"," ","F","o","r","m","u","l","a","r","z","a">>
tTypeOpen == <<"*","*","T","y","p",":","*","*"," ",Backtick>>
tRequiredMark == <<" ","*","(","w","y","m","a","g","a","n","e",")","*">>
tDescription == <<"*","*","O","p","i","s",":","*","*"," ">>
tOptions == <<"*","*","O","p","c","j","e",":","*","*"," ">>
tPlaceholder == <<"*","*","S","y","m","b","o","l"," ","z","a","s","t",EOgonek,"p","c","z","y",":","*","*"," ">>
tResponses == <<"#","#"," ","O","d","p","o","w","i","e","d","z","i">>
tNoResponses == <<"B","r","a","k"," ","o","d","p","o","w","i","e","d","z","i",".">>
tSubmitted == <<"D","a","t","a"," ","w","y","s",LStroke,"a","n","i","a">>
tSummary == <<"#","#"," ","P","o","d","s","u","m","o","w","a","n","i","e">>
tTotal == <<"-"," ","*","*",LStrokeUpper,AOgonek,"c","z","n","a"," ","l","i","c","z","b","a"," ","o","d","p","o","w","i","e","d","z","i",":","*","*"," ">>
tFirst == <<"-"," ","*","*","P","i","e","r","w","s","z","a"," ","o","d","p","o","w","i","e","d",ZAcute,":","*","*"," ">>
tLast == <<"-"," ","*","*","O","s","t","a","t","n","i","a"," ","o","d","p","o","w","i","e","d",ZAcute,":","*","*"," ">>
tRuleCell == <<"-","-","-">>
tCellBreak == <<" ","|"," ">>

\* new Date(t).toLocaleString('pl-PL') of the instants of the model; a value that
\* is not a date gives Invalid Date
toLocaleString(t) ==
  CASE t = "t1" -> <<"1",".","0","1",".","2","0","2","5",","," ","1","0",":","0","0",":","0","0">>
    [] t = "t2" -> <<"2",".","0","1",".","2","0","2","5",","," ","1","1",":","3","0",":","0","0">>
    [] OTHER -> <<"I","n","v","a","l","i","d"," ","D","a","t","e">>

\* the text the form definition holds for one field
DefinitionOf(field) ==
  IF field.type = tSeparator
  THEN (IF field.label # <<>> /\ field.label # DefaultSeparatorLabel
        THEN tCommentOpen \o field.label \o tCommentClose \o <<NL>> ELSE <<>>)
       \o (IF Truthy(field.helpText)
           THEN tCommentOpen \o ToStr(field.helpText) \o tCommentClose \o <<NL>> ELSE <<>>)
       \o <<"-","-","-",NL,NL>>
  ELSE <<"#","#","#"," ">> \o field.label \o <<NL>>
       \o tTypeOpen \o field.type \o <<Backtick>>
       \o (IF field.required THEN tRequiredMark ELSE <<>>) \o <<NL,NL>>
       \o (IF Truthy(field.helpText)
           THEN tDescription \o ToStr(field.helpText) \o <<NL,NL>> ELSE <<>>)
       \o (IF NonEmpty(field.options)
           THEN tOptions \o JoinValues(field.options.a, <<","," ">>) \o <<NL,NL>> ELSE <<>>)
       \o (IF Truthy(field.placeholder)
           THEN tPlaceholder \o <<DQ>> \o ToStr(field.placeholder) \o <<DQ,NL,NL>>
           ELSE <<>>)

\* the report up to the responses section, now the instant of the export
ReportHead(template, rs, include, now) ==
  tReportTitle \o template.title \o <<NL,NL>>
  \o (IF Truthy(template.description) THEN ToStr(template.description) \o <<NL,NL>>
      ELSE <<>>)
  \o tExportDate \o toLocaleString(now) \o <<NL>>
  \o tResponseCount \o NatToText(Len(rs)) \o <<NL,NL>>
  \o (IF include /\ Len(template.fields) > 0
      THEN tDefinition \o <<NL,NL>>
           \o Concat([i \in 1..Len(template.fields) |-> DefinitionOf(template.fields[i])])
           \o <<NL>>
      ELSE <<>>)

\* map.set(key, value) of a Map kept as its entries in insertion order
MapSet(map, key, value) ==
  IF \E i \in 1..Len(map) : map[i][1] = key
  THEN [i \in 1..Len(map) |-> IF map[i][1] = key THEN <<key, value>> ELSE map[i]]
  ELSE Append(map, <<key, value>>)

\* map.has(key)
MapHas(map, key) == \E i \in 1..Len(map) : map[i][1] = key

\* set.add(value) of a Set kept as its values in insertion order
SetAdd(set, value) ==
  IF \E i \in 1..Len(set) : set[i] = value THEN set ELSE Append(set, value)

\* the template's fields from the i-th on added to fieldIdToLabel (acc.map) and
\* allFieldLabels (acc.set)
RECURSIVE TemplateLabels(_, _, _)
TemplateLabels(fs, i, acc) ==
  IF i > Len(fs) THEN acc
  ELSE IF fs[i].type = tSeparator THEN TemplateLabels(fs, i + 1, acc)
  ELSE TemplateLabels(fs, i + 1, [map |-> MapSet(acc.map, fs[i].id, fs[i].label),
                                  set |-> SetAdd(acc.set, fs[i].label)])

\* Object.keys(response.responses) of every response, in order
ResponseKeys(rs) ==
  Concat([i \in 1..Len(rs) |->
            [j \in 1..Len(rs[i].responses.o) |-> rs[i].responses.o[j][1]]])

\* the field ids of the responses that the template does not have, from the i-th
\* key on, added under their own name
RECURSIVE ResponseLabels(_, _, _)
ResponseLabels(keys, i, acc) ==
  IF i > Len(keys) THEN acc
  ELSE IF MapHas(acc.map, keys[i]) THEN ResponseLabels(keys, i + 1, acc)
  ELSE ResponseLabels(keys, i + 1, [map |-> MapSet(acc.map, keys[i], keys[i]),
                                    set |-> SetAdd(acc.set, keys[i])])

\* mutant of LabelsOf: the keys of the responses are not looked at
LabelsOf_TemplateOnly(template, rs) ==
  TemplateLabels(template.fields, 1, [map |-> <<>>, set |-> <<>>])

\* fieldIdToLabel and allFieldLabels of a call
LabelsOf(template, rs) ==
  ResponseLabels(ResponseKeys(rs), 1,
                 TemplateLabels(template.fields, 1, [map |-> <<>>, set |-> <<>>]))

\* the two lines that open the table
TableHead(labels) ==
  <<"|"," ">> \o Join(<<tSubmitted>> \o labels, tCellBreak) \o <<" ","|",NL>>
  \o <<"|"," ">> \o Join([i \in 1..(Len(labels) + 1) |-> tRuleCell], tCellBreak)
  \o <<" ","|",NL>>

\* the id of the first entry of fieldIdToLabel that has the label, or ''
FieldIdOf(map, label) ==
  LET hits == {i \in 1..Len(map) : map[i][2] = label}
  IN  IF hits = {} THEN <<>> ELSE map[MinOf(hits)][1]

\* Object.values(v)
ObjectValues(v) ==
  CASE v.k = "object" -> [i \in 1..Len(v.o) |-> v.o[i][2]]
    [] v.k = "array" -> v.a
    [] v.k = "string" -> [i \in 1..Len(v.s) |-> JStr(<<v.s[i]>>)]
    [] OTHER -> <<>>

\* mutant of CellText: a list of row objects is joined as a list of scalars
CellText_RowsAsScalars(v) ==
  IF IsArray(v) THEN JoinValues(v.a, <<","," ">>)
  ELSE IF v.k = "object" THEN JsonStringify(v)
  ELSE ToStr(v)

\* the text of a cell value before it is escaped
CellText(v) ==
  IF IsArray(v)
  THEN IF Len(v.a) > 0 /\ v.a[1].k \in {"object", "array"}
       THEN Join([i \in 1..Len(v.a) |-> JoinValues(ObjectValues(v.a[i]), tCellBreak)],
                 <<";"," ">>)
       ELSE JoinValues(v.a, <<","," ">>)
  ELSE IF v.k = "object" THEN JsonStringify(v)
  ELSE ToStr(v)

\* mutant of EscapeCell: the pipes are left as they are
EscapeCell_PipesKept(text) == Trim(ReplaceAll(text, NL, <<" ">>))

\* cellValue.replace(/\|/g, '\\|').replace(/\n/g, ' ').trim()
EscapeCell(text) == Trim(ReplaceAll(ReplaceAll(text, "|", <<BSL,"|">>), NL, <<" ">>))

\* '-' for a cell that is empty
CellOrDash(text) == IF text = <<>> THEN <<"-">> ELSE text

\* the cell of a response under a label
CellOf(response, map, label) ==
  LET raw == GetProp(response.responses, FieldIdOf(map, label))
  IN  CellOrDash(EscapeCell(CellText(IF Truthy(raw) THEN raw ELSE JStr(<<>>))))

\* the line of the table for one response
RowOf(response, map, labels) ==
  <<"|"," ">>
  \o Join(<<toLocaleString(response.submittedAt)>>
            \o [i \in 1..Len(labels) |-> CellOf(response, map, labels[i])], tCellBreak)
  \o <<" ","|",NL>>

\* the summary that ends the report
SummaryOf(rs) ==
  tSummary \o <<NL,NL>>
  \o tTotal \o NatToText(Len(rs)) \o <<NL>>
  \o (IF Len(rs) > 0
      THEN tFirst \o toLocaleString(rs[Len(rs)].submittedAt) \o <<NL>>
           \o tLast \o toLocaleString(rs[1].submittedAt) \o <<NL>>
      ELSE <<>>)

\* the instants the export can happen at
NowPool == {"t1", "t2"}

\* the call up to the first row: the head, the form definition and, when there
\* are responses, the head of the table
ReportCall ==
  /\ pc = "report_call"
  /\ \E now \in NowPool :
       IF Len(responses) = 0
       THEN /\ markdown' = ReportHead(formTemplate, responses, includeFormDefinition, now)
                             \o tResponses \o <<NL,NL>> \o tNoResponses \o <<NL>>
            /\ pc' = "done"
            /\ UNCHANGED <<fieldIdToLabel, allFieldLabels>>
       ELSE /\ fieldIdToLabel' = LabelsOf(formTemplate, responses).map
            /\ allFieldLabels' = LabelsOf(formTemplate, responses).set
            /\ markdown' = ReportHead(formTemplate, responses, includeFormDefinition, now)
                             \o tResponses \o <<" ","(">> \o NatToText(Len(responses))
                             \o <<")",NL,NL>>
                             \o TableHead(LabelsOf(formTemplate, responses).set)
            /\ pc' = "report_rows"
  /\ ri' = 1
  /\ UNCHANGED <<op, sections, idx, fields, errors, origin, validateVars>>
  /\ UNCHANGED <<formTemplate, responses, includeFormDefinition>>

\* one iteration of responses.forEach: a row of the table
ReportRow ==
  /\ pc = "report_rows"
  /\ ri <= Len(responses)
  /\ markdown' = markdown \o RowOf(responses[ri], fieldIdToLabel, allFieldLabels)
  /\ ri' = ri + 1
  /\ UNCHANGED <<op, pc, sections, idx, fields, errors, origin, validateVars>>
  /\ UNCHANGED <<formTemplate, responses, includeFormDefinition, allFieldLabels, fieldIdToLabel>>

\* the summary, and return markdown
ReportReturn ==
  /\ pc = "report_rows"
  /\ ri > Len(responses)
  /\ markdown' = markdown \o <<NL>> \o SummaryOf(responses)
  /\ pc' = "done"
  /\ UNCHANGED <<op, sections, idx, fields, errors, origin, validateVars>>
  /\ UNCHANGED <<formTemplate, responses, includeFormDefinition, allFieldLabels, fieldIdToLabel, ri>>

(***************************************************************************)
(* Forms and responses exportResponsesToMarkdown is called with            *)
(***************************************************************************)
\* the number of responses
MaxResponses == 2

IdF1 == <<"f","1">>
IdF2 == <<"f","2">>
IdZ == <<"z","z">>

RFieldA == FieldOf(IdF1, tText, <<"A">>, TRUE, JStr(<<"h">>), JStr(<<"p">>), U, U, U, U, U)
RFieldB ==
  FieldOf(IdF2, tSelect, <<"B">>, FALSE, U, U, JArr(<<JStr(<<"x">>), JStr(<<"y">>)>>),
          U, U, U, U)
RSeparator == FieldOf(<<"s">>, tSeparator, <<"S">>, FALSE, JStr(<<"h">>), U, U, U, U, U, U)

TemplatePool ==
  {[title |-> <<"T">>, description |-> JUndefined, fields |-> <<RFieldA>>],
   [title |-> <<"T">>, description |-> JStr(<<"d">>),
    fields |-> <<RFieldA, RSeparator, RFieldB>>]}

VPipe == JStr(<<"a","|","b">>)
VNewline == JStr(<<"a",NL,"b">>)
VBoth == JStr(<<"|",NL,"|">>)
VBackslashPipe == JStr(<<BSL,"|">>)
VEmpty == JStr(<<>>)
VSpace == JStr(<<" ">>)
VZero == JNum(0)
VList == JArr(<<JStr(<<"x","|","y">>), JNum(7)>>)
VNoList == JArr(<<>>)
VRows == JArr(<<JObj(<<<<<<"N">>, JStr(<<"a","|","b">>)>>, <<<<"E">>, JStr(<<"c",NL,"d">>)>>>>),
                JObj(<<<<<<"N">>, JStr(<<"e">>)>>>>)>>)
VObject == JObj(<<<<<<"k">>, JStr(<<"a","|",NL>>)>>>>)

ValuePool == {VPipe, VNewline, VBoth, VBackslashPipe, VEmpty, VSpace, VZero, VList, VNoList,
              VRows, VObject}

\* a response: what was answered, and when
ResponseOf(answers, submittedAt) ==
  [id |-> <<"r">>, responses |-> JObj(answers), submittedAt |-> submittedAt]

ResponsePool ==
  {ResponseOf(<<>>, "t1")}
  \cup {ResponseOf(<<<<IdF1, v>>>>, "t2") : v \in ValuePool}
  \cup {ResponseOf(<<<<IdF1, VPipe>>, <<IdF2, VNewline>>>>, "t1"),
        ResponseOf(<<<<IdZ, VBoth>>>>, "bad")}

ResponseLists == UNION {[1..n -> ResponsePool] : n \in 0..MaxResponses}

InitReport ==
  /\ op = "exportResponsesToMarkdown"
  /\ pc = "report_call"
  /\ markdown = <<>>
  /\ sections = <<>>
  /\ idx = 0
  /\ fields = <<>>
  /\ errors = <<>>
  /\ origin = <<>>
  /\ ValidateIdle
  /\ formTemplate \in TemplatePool
  /\ responses \in ResponseLists
  /\ includeFormDefinition \in BOOLEAN
  /\ allFieldLabels = <<>>
  /\ fieldIdToLabel = <<>>
  /\ ri = 0

NextReport == ReportCall \/ ReportRow \/ ReportReturn

SpecReport == InitReport /\ [][NextReport]_vars

(***************************************************************************)
(* Forms whose labels hold a | or are shared by two fields, and responses  *)
(* with falsy answers                                                      *)
(***************************************************************************)
IdPiped == <<"k","|","k">>

RPiped == FieldOf(IdF1, tText, <<"a","|","b">>, FALSE, U, U, U, U, U, U, U)
RTwin == FieldOf(IdF2, tText, <<"A">>, FALSE, U, U, U, U, U, U, U)

LabelTemplatePool ==
  {[title |-> <<"T">>, description |-> JUndefined, fields |-> <<RFieldA>>],
   [title |-> <<"T">>, description |-> JUndefined, fields |-> <<RPiped>>],
   [title |-> <<"T">>, description |-> JUndefined, fields |-> <<RFieldA, RTwin>>]}

VText == JStr(<<"u">>)
VOther == JStr(<<"v">>)
VFalse == JBool(FALSE)

LabelResponsePool ==
  {ResponseOf(<<>>, "t1"),
   ResponseOf(<<<<IdF1, VText>>>>, "t1"),
   ResponseOf(<<<<IdF1, VText>>, <<IdF2, VOther>>>>, "t2"),
   ResponseOf(<<<<IdF1, VZero>>>>, "t2"),
   ResponseOf(<<<<IdF1, VFalse>>>>, "t2"),
   ResponseOf(<<<<IdF1, JNull>>>>, "t1"),
   ResponseOf(<<<<IdF1, VSpace>>>>, "t1"),
   ResponseOf(<<<<IdF1, VNoList>>>>, "t1"),
   ResponseOf(<<<<IdPiped, VText>>>>, "t1")}

LabelResponseLists == UNION {[1..n -> LabelResponsePool] : n \in 0..MaxResponses}

InitLabels ==
  /\ op = "exportResponsesToMarkdown"
  /\ pc = "report_call"
  /\ markdown = <<>>
  /\ sections = <<>>
  /\ idx = 0
  /\ fields = <<>>
  /\ errors = <<>>
  /\ origin = <<>>
  /\ ValidateIdle
  /\ formTemplate \in LabelTemplatePool
  /\ responses \in LabelResponseLists
  /\ includeFormDefinition \in BOOLEAN
  /\ allFieldLabels = <<>>
  /\ fieldIdToLabel = <<>>
  /\ ri = 0

SpecLabels == InitLabels /\ [][NextReport]_vars

(***************************************************************************)
(* MarkdownFormParser.generateExamples, and the validation of what the     *)
(* parser returns for a document                                           *)
(***************************************************************************)
OAcute == "o-acute"
SAcute == "s-acute"
ZDot == "z-dot"
CAcute == "c-acute"

ExampleText ==
  <<"#","#"," ","I","m","i",EOgonek," ","i"," ","N","a","z","w","i","s","k","o",NL,"[","t",
    "e","x","t","]"," ","(","r","e","q","u","i","r","e","d",")"," ","{",DQ,"p","l","a","c",
    "e","h","o","l","d","e","r",DQ,":"," ",DQ,"W","p","r","o","w","a","d",ZAcute," ","s",
    "w","o","j","e"," ","p","e",LStroke,"n","e"," ","i","m","i",EOgonek," ","i"," ","n","a",
    "z","w","i","s","k","o",DQ,"}",NL,"P","r","o","s","z",EOgonek," ","p","o","d","a",
    CAcute," ","s","w","o","j","e"," ","p","e",LStroke,"n","e"," ","i","m","i",EOgonek," ",
    "i"," ","n","a","z","w","i","s","k","o">>

ExampleTextarea ==
  <<"#","#"," ","W","i","a","d","o","m","o",SAcute,CAcute,NL,"[","t","e","x","t","a","r",
    "e","a","]"," ","{",DQ,"p","l","a","c","e","h","o","l","d","e","r",DQ,":"," ",DQ,"W",
    "p","r","o","w","a","d",ZAcute," ","s","w","o","j",AOgonek," ","w","i","a","d","o","m",
    "o",SAcute,CAcute," ","t","u","t","a","j",DQ,"}",NL,"O","p","o","w","i","e","d","z"," ",
    "n","a","m"," ","o"," ","s","w","o","i","m"," ","z","a","p","y","t","a","n","i","u">>

ExampleEmail ==
  <<"#","#"," ","A","d","r","e","s"," ","E","m","a","i","l",NL,"[","e","m","a","i","l","]",
    " ","(","r","e","q","u","i","r","e","d",")"," ","{",DQ,"p","l","a","c","e","h","o","l",
    "d","e","r",DQ,":"," ",DQ,"t","w","o","j",".","e","m","a","i","l","@","e","x","a","m",
    "p","l","e",".","c","o","m",DQ,"}",NL,"U",ZDot,"y","j","e","m","y"," ","t","e","g","o",
    " ","a","d","r","e","s","u"," ","d","o"," ","k","o","n","t","a","k","t","u"," ","z"," ",
    "T","o","b",AOgonek>>

ExampleNumber ==
  <<"#","#"," ","W","i","e","k",NL,"[","n","u","m","b","e","r","]"," ","{",DQ,"p","l","a",
    "c","e","h","o","l","d","e","r",DQ,":"," ",DQ,"2","5",DQ,"}",NL,"P","o","d","a","j"," ",
    "s","w",OAcute,"j"," ","w","i","e","k"," ","w"," ","l","a","t","a","c","h">>

ExampleDate ==
  <<"#","#"," ","D","a","t","a"," ","U","r","o","d","z","e","n","i","a",NL,"[","d","a","t",
    "e","]"," ","(","r","e","q","u","i","r","e","d",")",NL,"W","y","b","i","e","r","z"," ",
    "s","w","o","j",AOgonek," ","d","a","t",EOgonek," ","u","r","o","d","z","e","n","i",
    "a">>

ExampleSelect ==
  <<"#","#"," ","K","r","a","j",NL,"[","s","e","l","e","c","t","]"," ","(","r","e","q","u",
    "i","r","e","d",")"," ","{",DQ,"o","p","t","i","o","n","s",DQ,":"," ","[",DQ,"P","o",
    "l","s","k","a",DQ,","," ",DQ,"N","i","e","m","c","y",DQ,","," ",DQ,"W","i","e","l","k",
    "a"," ","B","r","y","t","a","n","i","a",DQ,","," ",DQ,"F","r","a","n","c","j","a",DQ,
    "]","}",NL,"W","y","b","i","e","r","z"," ","s","w",OAcute,"j"," ","k","r","a","j">>

ExampleRadio ==
  <<"#","#"," ","P","r","e","f","e","r","o","w","a","n","y"," ","S","p","o","s",OAcute,"b",
    " ","K","o","n","t","a","k","t","u",NL,"[","r","a","d","i","o","]"," ","{",DQ,"o","p",
    "t","i","o","n","s",DQ,":"," ","[",DQ,"E","m","a","i","l",DQ,","," ",DQ,"T","e","l","e",
    "f","o","n",DQ,","," ",DQ,"S","M","S",DQ,"]","}",NL,"W"," ","j","a","k","i"," ","s","p",
    "o","s",OAcute,"b"," ","c","h","c","i","a",LStroke,"b","y",SAcute,","," ","a","b","y",
    SAcute,"m","y"," ","s","i",EOgonek," ","z"," ","T","o","b",AOgonek," ","k","o","n","t",
    "a","k","t","o","w","a","l","i","?">>

ExampleCheckbox ==
  <<"#","#"," ","Z","a","i","n","t","e","r","e","s","o","w","a","n","i","a",NL,"[","c","h",
    "e","c","k","b","o","x","]"," ","{",DQ,"o","p","t","i","o","n","s",DQ,":"," ","[",DQ,
    "T","e","c","h","n","o","l","o","g","i","a",DQ,","," ",DQ,"S","p","o","r","t",DQ,",",
    " ",DQ,"M","u","z","y","k","a",DQ,","," ",DQ,"P","o","d","r",OAcute,ZDot,"e",DQ,","," ",
    DQ,"J","e","d","z","e","n","i","e",DQ,"]","}",NL,"Z","a","z","n","a","c","z"," ","w",
    "s","z","y","s","t","k","i","e",","," ","k","t",OAcute,"r","e"," ","d","o","t","y","c",
    "z",AOgonek," ","C","i","e","b","i","e">>

ExampleFile ==
  <<"#","#"," ","P","r","z","e","s","y",LStroke,"a","n","i","e"," ","C","V",NL,"[","f","i",
    "l","e","]"," ","(","r","e","q","u","i","r","e","d",")"," ","{",DQ,"a","c","c","e","p",
    "t","e","d","F","i","l","e","T","y","p","e","s",DQ,":"," ","[",DQ,".","p","d","f",DQ,
    ","," ",DQ,".","d","o","c",DQ,","," ",DQ,".","d","o","c","x",DQ,"]",","," ",DQ,"m","a",
    "x","F","i","l","e","S","i","z","e",DQ,":"," ","5",","," ",DQ,"m","u","l","t","i","p",
    "l","e",DQ,":"," ","f","a","l","s","e","}",NL,"P","r","z","e",SAcute,"l","i","j"," ",
    "s","w","o","j","e"," ","C","V"," ","(","p","l","i","k"," ","P","D","F"," ","l","u","b",
    " ","W","o","r","d",")">>

ExampleTable ==
  <<"#","#"," ","D","a","n","e"," ","U","c","z","e","s","t","n","i","k",OAcute,"w",NL,"[",
    "t","a","b","l","e","]"," ","(","r","e","q","u","i","r","e","d",")"," ","{",DQ,"c","o",
    "l","u","m","n","s",DQ,":"," ","[",DQ,"I","m","i",EOgonek,DQ,","," ",DQ,"N","a","z","w",
    "i","s","k","o",DQ,","," ",DQ,"E","m","a","i","l",DQ,","," ",DQ,"T","e","l","e","f","o",
    "n",DQ,"]","}",NL,"D","o","d","a","j"," ","i","n","f","o","r","m","a","c","j","e"," ",
    "o"," ","w","s","z","y","s","t","k","i","c","h"," ","u","c","z","e","s","t","n","i","k",
    "a","c","h">>

ExampleSeparator ==
  <<"#","#"," ","S","e","k","c","j","a",NL,"[","s","e","p","a","r","a","t","o","r","]",NL,
    "T","e","n"," ","t","e","k","s","t"," ","b",EOgonek,"d","z","i","e"," ","w","y",SAcute,
    "w","i","e","t","l","a","n","y"," ","n","a","d"," ","b","e","l","k",AOgonek," ","d","z",
    "i","e","l",AOgonek,"c",AOgonek>>


\* generateExamples(): the example of every field type
ExamplePool ==
  {ExampleText, ExampleTextarea, ExampleEmail, ExampleNumber, ExampleDate, ExampleSelect,
   ExampleRadio, ExampleCheckbox, ExampleFile, ExampleTable, ExampleSeparator}

InitParsed ==
  /\ op = "parseMarkdown"
  /\ pc = "parse_call"
  /\ markdown \in ExamplePool
  /\ sections = <<>>
  /\ idx = 0
  /\ fields = <<>>
  /\ errors = <<>>
  /\ origin = <<>>
  /\ ValidateIdle
  /\ ReportIdle

\* validateExportFidelity(parseMarkdown(D).fields), for a document parsed
\* without errors
ValidateParsed ==
  /\ op = "parseMarkdown"
  /\ pc = "done"
  /\ errors = <<>>
  /\ op' = "validateExportFidelity"
  /\ inFields' = fields
  /\ pc' = "validate_call"
  /\ UNCHANGED <<parseVars, formTitle, formDescription, vErrors, vWarnings, cmp, returned,
                 reportVars>>

NextParsed == NextParse \/ ValidateParsed \/ NextFidelity

SpecParsed == InitParsed /\ [][NextParsed]_vars

(***************************************************************************)
(* Claims about parseMarkdown on whole documents (SpecParse)               *)
(***************************************************************************)
\* the lines of the document that open a section: the ## headers and the rules
MarkerLines == {LineA, LineBad, LineRule, LineRule5}
RuleLines == {LineRule, LineRule5}
Markers == SelectSeq(Split(markdown, NL), LAMBDA line : line \in MarkerLines)

\* the markers of the well-formed sections (every block but BlkNoType)
GoodOf(markers) == SelectSeq(markers, LAMBDA m : m # LineBad)

\* the label the field of a well-formed block must carry
ExpectedLabel(m) == IF m = LineA THEN <<"A">> ELSE DefaultSeparatorLabel

\* the number of well-formed sections among the first j
GoodUpTo(markers, j) == Cardinality({i \in 1..j : markers[i] # LineBad})

\* the result parseMarkdown must return for a document with these markers
IsolatedResult(markers, good) ==
  /\ Len(fields) = Len(good)
  /\ \A k \in 1..Len(fields) : fields[k].label = ExpectedLabel(good[k])
  /\ Len(errors) = Len(markers) - Len(good)
  /\ \A k \in 1..Len(errors) :
       errors[k] = [section |-> <<"B","a","d">>, error |-> MsgTypeRequired]

\* C2: parseMarkdown never throws; a section that fails gives exactly one
\* {section, error} entry and no field, every other section gives its field, and
\* the fields are in the order of their sections in the document.
C2_PartialFailureIsolation ==
  /\ pc # "threw"
  /\ pc \in {"parse_loop", "done"} => Len(fields) + Len(errors) = idx - 1
  /\ pc = "done" => IsolatedResult(Markers, GoodOf(Markers))

\* three well-formed sections and a malformed one in second place: three fields
\* in document order and one error
C2_Witness ==
  /\ pc = "done"
  /\ Len(fields) = 3
  /\ Len(errors) = 1
  /\ origin = <<1, 3, 4>>
  /\ fields[1].type = tText
  /\ fields[2].type = tSeparator
  /\ fields[3].type = tText

\* every rule among the markers has its separator field, at its place
SeparatorsPlaced(markers) ==
  /\ Len(sections) = Len(markers)
  /\ \A j \in 1..Len(markers) :
       markers[j] \in RuleLines =>
         /\ GoodUpTo(markers, j) <= Len(fields)
         /\ origin[GoodUpTo(markers, j)] = j
         /\ fields[GoodUpTo(markers, j)].type = tSeparator
         /\ fields[GoodUpTo(markers, j)].label = DefaultSeparatorLabel
  /\ Cardinality({k \in 1..Len(fields) : fields[k].type = tSeparator})
       = Cardinality({j \in 1..Len(markers) : markers[j] \in RuleLines})

\* C8: every line of three or more hyphens gives exactly one separator field
\* with the default label, at the position of the line among the sections.
C8_SeparatorShorthand == pc = "done" => SeparatorsPlaced(Markers)

\* a rule of five hyphens, and the line after it, between two text sections
C8_Witness ==
  /\ pc = "done"
  /\ Len(fields) = 3
  /\ fields[1].type = tText
  /\ fields[2].type = tSeparator
  /\ fields[2].helpText = JStr(LineNote)
  /\ fields[3].type = tText

(***************************************************************************)
(* Claims about single sections (SpecSection)                              *)
(***************************************************************************)
\* the padding tried inside the parentheses of a required marker
MaxPad == 1

Range(seq) == {seq[i] : i \in 1..Len(seq)}

\* the document is the section [type] + some required marker + props
DocIs(type, props) == \E r \in RequiredPool : markdown = SectionDoc(type, r, props)

\* the configuration line of the document
DocConfigLine == Split(markdown, NL)[2]

\* the valid properties blocks that have no "options" key
NoOptionsKey == {PropsNone, PropsEmpty, PropsPlaceholder, PropsColumnsEmpty,
                 PropsColumnsOne, PropsColumnsTwo, PropsColumnsString, PropsTypesString,
                 PropsTypesNumber, PropsTypesNull, PropsTypesArray}

\* the valid properties blocks that have no "columns" key
NoColumnsKey == {PropsNone, PropsEmpty, PropsPlaceholder, PropsOptionsEmpty,
                 PropsOptions, PropsOptionsString, PropsOptionsNull, PropsTypesString,
                 PropsTypesNumber, PropsTypesNull, PropsTypesArray}

\* the section failed with this message and gave no field
FailedWith(message) ==
  fields = <<>> /\ errors = <<[section |-> LabelX, error |-> message]>>

\* C3: a select, radio or checkbox section without an options key fails with the
\* missing-options error and gives no field; with {"options": []} it parses, with
\* options = []; every such field that is returned carries an options array.
C3_ChoiceFieldStrictness ==
  /\ \A k \in 1..Len(fields) : fields[k].type \in ChoiceTypes => IsArray(fields[k].options)
  /\ pc = "done" =>
       \A t \in ChoiceTypes :
         /\ \A p \in NoOptionsKey : DocIs(t, p) => FailedWith(MsgMissingOptions(t))
         /\ DocIs(t, PropsOptionsEmpty) =>
              /\ errors = <<>>
              /\ Len(fields) = 1
              /\ fields[1].type = t
              /\ fields[1].options = JArr(<<>>)

\* a select section with {"options": []} has been parsed into a field
C3_Witness ==
  /\ pc = "done"
  /\ DocIs(tSelect, PropsOptionsEmpty)
  /\ Len(fields) = 1
  /\ fields[1].options = JArr(<<>>)

\* C4: a table section whose columns are missing, not an array or an empty array
\* fails and gives no field; with a non-empty array it parses, with those columns
\* in order; every table field that is returned has a non-empty columns array.
C4_TableStrictness ==
  /\ \A k \in 1..Len(fields) :
       fields[k].type = tTable => IsArray(fields[k].columns) /\ Len(fields[k].columns.a) > 0
  /\ pc = "done" =>
       /\ \A p \in NoColumnsKey : DocIs(tTable, p) => FailedWith(MsgMissingColumns)
       /\ DocIs(tTable, PropsColumnsString) => FailedWith(MsgColumnsNotArray)
       /\ DocIs(tTable, PropsColumnsEmpty) => FailedWith(MsgEmptyColumns)
       /\ DocIs(tTable, PropsColumnsOne) =>
            /\ errors = <<>>
            /\ Len(fields) = 1
            /\ fields[1].columns = JArr(<<JStr(<<"A">>)>>)
       /\ DocIs(tTable, PropsColumnsTwo) =>
            /\ errors = <<>>
            /\ Len(fields) = 1
            /\ fields[1].columns = JArr(<<JStr(<<"B">>), JStr(<<"A">>)>>)

\* a table section with {"columns": []} has been refused
C4_Witness ==
  /\ pc = "done"
  /\ DocIs(tTable, PropsColumnsEmpty)
  /\ FailedWith(MsgEmptyColumns)

\* the properties blocks that are not strict JSON
NotStrictJson == {PropsOptionsUnquoted, PropsOptionsSingleQuoted, PropsOptionsTrailingComma}

\* C5: a properties block that is not strict JSON (unquoted keys, single quotes, a
\* trailing comma) makes the section fail with the invalid-properties error, which
\* carries the message of the JSON error, and gives no field; the block with
\* quoted keys parses.
C5_StrictJsonProperties ==
  pc = "done" =>
    \A t \in TypePool :
      /\ \A p \in NotStrictJson :
           DocIs(t, p) =>
             /\ fields = <<>>
             /\ Len(errors) = 1
             /\ errors[1].section = LabelX
             /\ errors[1].error[1] = "Nieprawidlowa skladnia wlasciwosci: "
             /\ JsonSyntaxError \in Range(errors[1].error)
      /\ t # tTable /\ DocIs(t, PropsOptions) => errors = <<>> /\ Len(fields) = 1

\* a select section with {options: ["a"]} has been refused
C5_Witness ==
  /\ pc = "done"
  /\ DocIs(tSelect, PropsOptionsUnquoted)
  /\ fields = <<>>
  /\ Len(errors) = 1

Pad(n) == [i \in 1..n |-> " "]

\* ( required ) and ( required ? ) with up to MaxPad spaces at each place
PaddedRequiredTokens ==
  {<<"(">> \o Pad(a) \o tRequired \o Pad(b) \o <<")">> : a \in 0..MaxPad, b \in 0..MaxPad}
  \cup {<<"(">> \o Pad(a) \o tRequired \o Pad(b) \o <<"?">> \o Pad(c) \o <<")">> :
          a \in 0..MaxPad, b \in 0..MaxPad, c \in 0..MaxPad}

\* C7 as stated: required is true exactly when the configuration line contains
\* (required) or (required?), in any letter case.
C7_RequiredExactTokens ==
  pc = "done" /\ Len(fields) = 1 =>
    (fields[1].required <=>
       \/ Contains(ToLower(DocConfigLine), <<"(">> \o tRequired \o <<")">>)
       \/ Contains(ToLower(DocConfigLine), <<"(">> \o tRequired \o <<"?",")">>))

\* C7 amended: required is true exactly when the configuration line contains, in
\* any letter case, ( required ) or ( required ? ) where each space stands for
\* optional whitespace.
C7_RequiredDetection ==
  pc = "done" /\ Len(fields) = 1 =>
    (fields[1].required <=>
       \E tok \in PaddedRequiredTokens : Contains(ToLower(DocConfigLine), tok))

\* a section marked ( required ) has been parsed into a required field
C7_Witness ==
  /\ pc = "done"
  /\ Len(fields) = 1
  /\ fields[1].required
  /\ \E t \in TypePool, p \in PropsPool : markdown = SectionDoc(t, ReqPadded, p)

(***************************************************************************)
(* Claims about validateExportFidelity (SpecFidelity)                      *)
(***************************************************************************)
\* a list of texts
IsTextArray(v) == IsArray(v) /\ \A i \in 1..Len(v.a) : v.a[i].k = "string"

\* a valid field: one of the 11 types, a label, options on a choice field, columns
\* on a table, legal file properties
ValidField(f) ==
  /\ f # JNull
  /\ f.type \in TypePool
  /\ f.label # <<>>
  /\ f.type \in ChoiceTypes => IsTextArray(f.options)
  /\ f.type = tTable => IsTextArray(f.columns) /\ Len(f.columns.a) > 0
  /\ f.options = JUndefined \/ IsTextArray(f.options)
  /\ f.columns = JUndefined \/ IsTextArray(f.columns)
  /\ f.acceptedFileTypes = JUndefined \/ IsTextArray(f.acceptedFileTypes)
  /\ f.maxFileSize = JUndefined \/ (f.maxFileSize.k = "number" /\ f.maxFileSize.n > 0)
  /\ f.multiple = JUndefined \/ f.multiple.k = "boolean"
  /\ f.helpText.k \in {"undefined", "string"}
  /\ f.placeholder.k \in {"undefined", "string"}

ValidList(list) == \A i \in 1..Len(list) : ValidField(list[i])

\* the field without its id
Compared(f) ==
  <<f.label, f.type, f.required, f.helpText, f.placeholder, f.options, f.columns,
    f.acceptedFileTypes, f.maxFileSize, f.multiple>>

\* C1 as stated: a list of valid fields re-imports as the same number of fields,
\* equal position by position on every compared property, and
\* validateExportFidelity returns isValid = true with errors = [].
C1_RoundTripIdentity ==
  ValidList(inFields) =>
    /\ pc = "reimported" =>
         /\ Len(fields) = Len(inFields)
         /\ \A i \in 1..Len(fields) : Compared(fields[i]) = Compared(inFields[i])
    /\ pc = "returned" => returned.isValid /\ returned.errors = <<>>

\* the quoted text "options":[] and the two default columns as the exporter
\* writes them
tOptionsEmpty == <<DQ>> \o kOptions \o <<DQ,":","[","]">>
tColumnsDefault ==
  <<DQ>> \o kColumns \o <<DQ,":">>
    \o JsonStringify(JArr(<<JStr(DefaultColumn1), JStr(DefaultColumn2)>>))

\* undefined or an empty array
Unset(v) == v = JUndefined \/ v = JArr(<<>>)

\* C6 as stated: the export of one choice field whose options are undefined or
\* empty holds "options":[], that of one table whose columns are undefined or
\* empty holds the two default columns, and its re-import gives no missing-options
\* or empty-columns error and one field that has an options array (a non-empty
\* columns array).
C6_ForcedReimportProperties ==
  pc = "reimported" /\ Len(inFields) = 1 /\ inFields[1] # JNull =>
    /\ inFields[1].type \in ChoiceTypes /\ Unset(inFields[1].options) =>
         /\ Contains(markdown, tOptionsEmpty)
         /\ \A k \in 1..Len(errors) : errors[k].error # MsgMissingOptions(inFields[1].type)
         /\ Len(fields) = 1
         /\ IsArray(fields[1].options)
    /\ inFields[1].type = tTable /\ Unset(inFields[1].columns) =>
         /\ Contains(markdown, tColumnsDefault)
         /\ \A k \in 1..Len(errors) : errors[k].error \notin {MsgEmptyColumns, MsgMissingColumns}
         /\ Len(fields) = 1
         /\ IsArray(fields[1].columns)
         /\ Len(fields[1].columns.a) > 0

\* the entries of the errors array the catch block made
ProcessEntries(es) == {k \in 1..Len(es) : es[k].property = "process"}

\* the call raises an exception inside the try block: the list holds null (the
\* export reads its type), or a compared field has options null where the
\* re-imported field has an array (arraysEqual reads null.length)
Raises ==
  \/ \E i \in 1..Len(inFields) : inFields[i] = JNull
  \/ /\ pc = "returned"
     /\ \E i \in 1..MinOf({Len(inFields), Len(fields)}) :
          inFields[i].options = JNull /\ fields[i].options # JUndefined

\* C9: validateExportFidelity never leaves by an exception; when the export or
\* the comparison raises one, the errors it returns end with exactly one entry of
\* fieldId 'all' and property 'process', otherwise they hold none; and isValid is
\* true exactly when the errors are empty.
C9_ValidatorNeverThrows ==
  /\ pc # "threw"
  /\ pc = "returned" =>
       /\ returned.isValid <=> returned.errors = <<>>
       /\ returned.errors = vErrors
       /\ ProcessEntries(returned.errors) =
            IF Raises THEN {Len(returned.errors)} ELSE {}
       /\ \A k \in ProcessEntries(returned.errors) : returned.errors[k].fieldId = <<"all">>

\* the comparison of a field whose options are null has raised the TypeError
\* after pushing a mismatch, and the call has returned
C9_Witness ==
  /\ pc = "returned"
  /\ inFields = <<FSelectNullOptions, FText>>
  /\ Len(returned.errors) = 1
  /\ returned.errors[1] = ProcessError(MsgNullLength)
  /\ ~returned.isValid

(***************************************************************************)
(* Claims about exportResponsesToMarkdown (SpecReport)                     *)
(***************************************************************************)
\* the positions of the pipes of a line that divide cells: those that no
\* backslash precedes
CellPipes(line) == {i \in 1..Len(line) : line[i] = "|" /\ (i = 1 \/ line[i - 1] # BSL)}

\* the number of cells of a line of a table
CellCount(line) == Cardinality(CellPipes(line)) - 1

\* the text of a cell with each \| read as |
RECURSIVE Unescaped(_)
Unescaped(cell) ==
  IF cell = <<>> THEN <<>>
  ELSE IF Len(cell) >= 2 /\ cell[1] = BSL /\ cell[2] = "|"
       THEN <<"|">> \o Unescaped(SubSeq(cell, 3, Len(cell)))
       ELSE <<cell[1]>> \o Unescaped(Tail(cell))

\* the positions of the dividing pipes of a line, in order
PipeSeq(line) ==
  SelectSeq([i \in 1..Len(line) |-> i],
            LAMBDA i : line[i] = "|" /\ (i = 1 \/ line[i - 1] # BSL))

\* the text between the n-th and the next of the pipes at the positions at,
\* without the space on each side
CellBetween(line, at, n) == SubSeq(line, at[n] + 2, at[n + 1] - 2)

\* the text of the n-th cell of a line
CellAt(line, n) == CellBetween(line, PipeSeq(line), n)

\* every | of the cell follows a backslash, and the cell reads as the text with
\* its line breaks as spaces
CellReads(cell, text) ==
  /\ \A i \in 1..Len(cell) : cell[i] = "|" => i > 1 /\ cell[i - 1] = BSL
  /\ Unescaped(cell) = Trim(ReplaceAll(text, NL, <<" ">>))

\* the answer raw, when it is a text that is not blank, is read in the cell
AnswerKept(raw, line) ==
  raw.k = "string" /\ Trim(raw.s) # <<>> => CellReads(CellAt(line, 2), raw.s)

\* the line of the heading of the responses section
ResponsesHeading(lines) ==
  MinOf({i \in 1..Len(lines) : StartsWith(lines[i], tResponses \o <<" ","(">>)})

\* the lines of the table: from the second line after the heading to the line
\* before the next empty line
TableFrom(lines, first) ==
  SubSeq(lines, first, MinOf({i \in first..Len(lines) : lines[i] = <<>>}) - 1)

TableLines(lines) == TableFrom(lines, ResponsesHeading(lines) + 2)

\* the columns the inputs call for: the date, the labels of the template's
\* fields that are not separators, and the field ids only the responses have
ExpectedColumns(template, rs) ==
  LET shown == {i \in 1..Len(template.fields) : template.fields[i].type # tSeparator}
      known == {template.fields[i].id : i \in shown}
      keys == ResponseKeys(rs)
  IN  1 + Cardinality({template.fields[i].label : i \in shown}
                      \cup {keys[j] : j \in {j \in 1..Len(keys) : keys[j] \notin known}})

\* the table has its two head lines and one line per response, every
\* line has the expected cells, and the cell of a text answered for the first
\* field reads, with \| taken as |, as the text with its line breaks as spaces
TableKept(table, columns) ==
  /\ Len(table) = 2 + Len(responses)
  /\ \A k \in 1..Len(table) : CellCount(table[k]) = columns
  /\ \A r \in 1..Len(responses) :
       AnswerKept(GetProp(responses[r].responses, IdF1), table[2 + r])

\* C10: every response value is one cell of its row, each | in it written \| and
\* each line break a space: whatever the values hold, the table has one line per
\* response and every line has as many cells as there are columns.
C10_ResponseCellEscaping ==
  pc = "done" /\ Len(responses) > 0 =>
    TableKept(TableLines(Split(markdown, NL)), ExpectedColumns(formTemplate, responses))

\* a report has been written for a response whose answer is a pipe, a line break
\* and a pipe
C10_Witness ==
  /\ pc = "done"
  /\ responses = <<ResponseOf(<<<<IdF1, VBoth>>>>, "t2")>>
  /\ CellAt(TableLines(Split(markdown, NL))[3], 2) = <<BSL,"|"," ",BSL,"|">>

\* the labels of the columns of the table after the date, as its first line
\* gives them, in order
ColumnLabels(head) == [n \in 1..(CellCount(head) - 1) |-> CellAt(head, n + 1)]

\* the template's fields that take [all: every field; otherwise: every field
\* that is not a separator]
TemplateFields(template, all) ==
  {i \in 1..Len(template.fields) : all \/ template.fields[i].type # tSeparator}

\* the labels of those fields, and the keys of the responses that are the id of
\* none of them
LabelUnion(template, rs, shown) ==
  {template.fields[i].label : i \in shown}
  \cup {k \in Range(ResponseKeys(rs)) : \A i \in shown : template.fields[i].id # k}

\* the columns after the date are exactly the labels wanted, each once; there is
\* one row per response, and the k-th row is that of the k-th response: it
\* starts with its submission date
TableShaped(table, wanted) ==
  /\ Range(ColumnLabels(table[1])) = wanted
  /\ Len(ColumnLabels(table[1])) = Cardinality(wanted)
  /\ Len(table) = 2 + Len(responses)
  /\ \A k \in 1..Len(responses) :
       CellAt(table[2 + k], 1) = toLocaleString(responses[k].submittedAt)

IsScalar(v) == v.k \in {"string", "number", "boolean"}

\* the elements of a list of scalars, as texts, joined with ', '
ScalarsJoined(a) == Join([i \in 1..Len(a) |-> ToStr(a[i])], <<","," ">>)

\* the values of a row object, as texts, joined with ' | '
RowJoined(row) == Join([j \in 1..Len(row.o) |-> ToStr(row.o[j][2])], <<" ","|"," ">>)

\* the row objects of a list, each joined, joined with '; '
RowsJoined(a) == Join([i \in 1..Len(a) |-> RowJoined(a[i])], <<";"," ">>)

\* a text as a cell shows it: \| for |, a space for a line break, trimmed
AsCell(text) == Trim(ReplaceAll(ReplaceAll(text, "|", <<BSL,"|">>), NL, <<" ">>))

\* the cell shows the answer raw by the formatting rules
CellFormatted(raw, cell) ==
  /\ IsArray(raw) /\ Len(raw.a) > 0 /\ (\A i \in 1..Len(raw.a) : IsScalar(raw.a[i])) =>
       cell = AsCell(ScalarsJoined(raw.a))
  /\ IsArray(raw) /\ Len(raw.a) > 0 /\ (\A i \in 1..Len(raw.a) : raw.a[i].k = "object") =>
       cell = AsCell(RowsJoined(raw.a))
  /\ raw.k = "object" => cell = AsCell(JsonStringify(raw))
  /\ raw \in {JUndefined, JStr(<<>>), JArr(<<>>)} => cell = <<"-">>

\* C12: in the cell of an answer, a list of scalars is its elements joined with
\* ', ', a list of objects is each object's values joined with ' | ' and the
\* rows joined with '; ', a plain object is its JSON text (each then with its
\* pipes escaped), and an empty or missing value is '-'.
C12_CellFormatting ==
  pc = "done" /\ Len(responses) > 0 =>
    \A r \in 1..Len(responses) :
      CellFormatted(GetProp(responses[r].responses, IdF1),
                    CellAt(TableLines(Split(markdown, NL))[2 + r], 2))

\* a report has been written for an answer that is a list of two row objects
C12_Witness ==
  /\ pc = "done"
  /\ responses = <<ResponseOf(<<<<IdF1, VRows>>>>, "t2")>>
  /\ CellAt(TableLines(Split(markdown, NL))[3], 2)
       = <<"a",BSL,"|","b"," ",BSL,"|"," ","c"," ","d",";"," ","e">>

(***************************************************************************)
(* Claims about sections given line by line (SpecLines)                    *)
(***************************************************************************)
\* the header of the section: its first line
HeaderOf(lines) == lines[1]

\* the configuration line the section was written with (none: the empty text)
ConfigOf(lines) ==
  IF \E i \in 2..Len(lines) : lines[i] \in ConfigPool
  THEN lines[MinOf({i \in 2..Len(lines) : lines[i] \in ConfigPool})]
  ELSE CfgNone

\* the lines written before the configuration line, and after it
BeforeOf(lines) == SelectSeq(lines, LAMBDA l : l \in BeforePool)
AfterOf(lines) == SelectSeq(lines, LAMBDA l : l \in AfterPool)

\* the section gave no field and one error, with this message
RefusedWith(message) ==
  fields = <<>> /\ Len(errors) = 1 /\ errors[1].error = message

\* what parseMarkdown returns for a section of this header and configuration
\* line
LabelAndTypeChecked(header, config) ==
  IF header \in EmptyHeaders THEN RefusedWith(MsgEmptyLabel)
  ELSE IF config \in NoTypeConfigs THEN RefusedWith(MsgTypeRequired)
  ELSE IF config = CfgUnknown THEN RefusedWith(MsgInvalidType(<<"f","o","o">>))
  ELSE errors = <<>> /\ Len(fields) = 1 /\ fields[1].label = <<"X">>

NoFunctionalProperty(field) ==
  /\ field.placeholder = JUndefined
  /\ field.options = JUndefined
  /\ field.columns = JUndefined
  /\ field.acceptedFileTypes = JUndefined
  /\ field.maxFileSize = JUndefined
  /\ field.multiple = JUndefined

\* C14: every separator field parseMarkdown returns carries id, type, label,
\* required and helpText only: placeholder, options, columns, acceptedFileTypes,
\* maxFileSize and multiple are unset, whatever the properties block of the
\* [separator] line holds.
C14_SeparatorCarriesNoProperties ==
  \A k \in 1..Len(fields) :
    fields[k].type = tSeparator => NoFunctionalProperty(fields[k])

\* the section ## X / [separator] {"placeholder": "p"} has given a separator
\* whose placeholder is "p"
C14_SeparatorWithPlaceholder ==
  /\ pc = "done"
  /\ markdown = SectionDoc(tSeparator, ReqNone, PropsPlaceholder)
  /\ Len(fields) = 1
  /\ fields[1].type = tSeparator
  /\ fields[1].placeholder = JStr(<<"p">>)


\* ---------------------------------------------------------------------------
\* The input of the exporter and of the validator (SpecFidelity)

HelpInOrder(before, after) ==
  IF Trim(Join(before \o after, <<" ">>)) = <<>> THEN JUndefined
  ELSE JStr(Trim(Join(before \o after, <<" ">>)))

\* C16: the helpText of a parsed section is the lines before the configuration
\* line, in their order, then the lines after it, in their order, joined with
\* single spaces and trimmed; it is absent when the section has no such line.
C16_HelpTextInOrder ==
  pc = "done" /\ Len(fields) = 1 =>
    fields[1].helpText =
      HelpInOrder(BeforeOf(Split(markdown, NL)), AfterOf(Split(markdown, NL)))

\* the section ## X / p / qq / [text] / a has been parsed and its help text
\* reads "qq p a"
C16_ReversedHelp ==
  /\ pc = "done"
  /\ markdown = LinesDoc(HdrX, <<<<"p">>, <<"q","q">>>>, CfgText, <<<<"a">>>>)
  /\ Len(fields) = 1
  /\ fields[1].helpText = JStr(<<"q","q"," ","p"," ","a">>)


\* ---------------------------------------------------------------------------
\* Separators in the export and in the re-import (SpecFidelity)

\* the positions of the list that hold a separator field
SeparatorsOf(list) ==
  {i \in 1..Len(list) : list[i] # JNull /\ list[i].type = tSeparator}

\* the export has a --- line for every separator, and a comment line for the
\* label that is not the default one and for the help text
RulesExported(list, lines) ==
  /\ Cardinality({j \in 1..Len(lines) : lines[j] = <<"-","-","-">>})
       = Cardinality(SeparatorsOf(list))
  /\ \A i \in SeparatorsOf(list) :
       /\ list[i].label # DefaultSeparatorLabel =>
            \E j \in 1..Len(lines) :
              lines[j] = tCommentOpen \o list[i].label \o tCommentClose
       /\ list[i].helpText # JUndefined =>
            \E j \in 1..Len(lines) :
              lines[j] = tCommentOpen \o ToStr(list[i].helpText) \o tCommentClose

\* the re-import has, at the position of every separator, a separator with the
\* default label
RulesReimported(list, parsed) ==
  \A i \in SeparatorsOf(list) :
    /\ i <= Len(parsed)
    /\ parsed[i].type = tSeparator
    /\ parsed[i].label = DefaultSeparatorLabel

\* C17: every separator field, whatever its label and helpText, is exported as
\* a --- line (after a comment line for a label that is not the default one
\* and one for the help text), and the re-import has at its position a
\* separator field with the default label.
C17_SeparatorExportAsymmetry ==
  pc = "reimported" =>
    /\ RulesExported(inFields, Split(markdown, NL))
    /\ RulesReimported(inFields, fields)

\* the list of a select field whose placeholder holds a } and of a named
\* separator has been re-imported: the separator comes back at position 1
C17_SeparatorShifted ==
  /\ pc = "reimported"
  /\ inFields = <<FSelectBrace, FSeparatorNamed>>
  /\ Len(fields) = 1
  /\ fields[1].type = tSeparator
  /\ fields[1].label = DefaultSeparatorLabel


\* ---------------------------------------------------------------------------
\* Section errors of the re-import (SpecFidelity)

\* the properties a pair of fields is compared on
ComparedProperties ==
  {"label", "type", "required", "helpText", "placeholder", "options", "columns",
   "acceptedFileTypes", "maxFileSize", "multiple"}

\* the entry of the validator's errors is that of a compared property, of the
\* field count or of the catch block, and not one made of a section error
NotASectionError(entry) ==
  /\ entry.fieldId # <<"unknown">>
  /\ entry.property \in ComparedProperties \cup {"field_count", "process"}

\* C18: validateExportFidelity records every section error of the re-import as
\* one warning, with fieldId 'unknown' and the label of the section as
\* fieldLabel, and never as an entry of errors: there are as many warnings as
\* section errors.
C18_SectionErrorsAreWarnings ==
  pc = "returned" =>
    /\ Len(returned.warnings) = Len(errors)
    /\ \A j \in 1..Len(returned.errors) : NotASectionError(returned.errors[j])
    /\ \A i \in 1..Len(errors) :
         /\ returned.warnings[i].fieldId = <<"unknown">>
         /\ returned.warnings[i].fieldLabel = errors[i].section

\* two sections of the re-import have been refused and the validation has
\* returned two warnings and the error of the field count
C18_Witness ==
  /\ pc = "returned"
  /\ inFields = <<FSelectBrace, FSelectBrace>>
  /\ Len(errors) = 2
  /\ Len(returned.warnings) = 2
  /\ returned.warnings[1].fieldLabel = <<"E">>
  /\ returned.errors = <<CountError(2, 0)>>


\* ---------------------------------------------------------------------------
\* The field count and the comparison by index (SpecFidelity)

\* the compared properties, in the order of the comparison
PropertyOrder ==
  <<"label", "type", "required", "helpText", "placeholder", "options", "columns",
    "acceptedFileTypes", "maxFileSize", "multiple">>

ArrayProperties == {"options", "columns", "acceptedFileTypes"}

\* the value of a property of a field
ValueOf(f, p) ==
  CASE p = "label" -> JStr(f.label)
    [] p = "type" -> JStr(f.type)
    [] p = "required" -> JBool(f.required)
    [] OTHER -> f[p]

\* the export was made and re-imported: no element of the list is null
Reimported == \A i \in 1..Len(inFields) : inFields[i] # JNull

\* the number of compared pairs
MinLength == MinOf({Len(inFields), Len(fields)})

\* the k-th comparison of the loop: its pair and its property
PairOf(k) == ((k - 1) \div Len(PropertyOrder)) + 1
PropertyOf(k) == PropertyOrder[((k - 1) % Len(PropertyOrder)) + 1]
OriginalAt(k) == ValueOf(inFields[PairOf(k)], PropertyOf(k))
ReimportedAt(k) == ValueOf(fields[PairOf(k)], PropertyOf(k))

\* the two values of the k-th comparison differ: scalars by value, lists by
\* length or by an element
DiffersAt(k) == OriginalAt(k) # ReimportedAt(k)

\* the k-th comparison reads the length of null
RaisesAt(k) ==
  /\ PropertyOf(k) \in ArrayProperties
  /\ OriginalAt(k) = JNull
  /\ ReimportedAt(k) # JUndefined

\* an entry without its message
Brief(e) ==
  [fieldId |-> e.fieldId, fieldLabel |-> e.fieldLabel, property |-> e.property,
   original |-> e.original, reimported |-> e.reimported]

\* the entry of the k-th comparison: the id and the label of the original
\* field, the property and both values
EntryAt(k) ==
  [fieldId |-> inFields[PairOf(k)].id, fieldLabel |-> inFields[PairOf(k)].label,
   property |-> PropertyOf(k), original |-> OriginalAt(k),
   reimported |-> ReimportedAt(k)]

\* the entry of the field count, when the two numbers differ
CountEntries ==
  IF Len(inFields) # Len(fields)
  THEN <<Brief(CountError(Len(inFields), Len(fields)))>>
  ELSE <<>>

\* the entries of the differing comparisons among the first n
DifferingEntries(n) ==
  LET ks == SelectSeq([k \in 1..n |-> k], DiffersAt)
  IN  [j \in 1..Len(ks) |-> EntryAt(ks[j])]

\* the number of comparisons made: all of the pairs 1..MinLength, or those
\* before the first one that raises
ComparisonsMade ==
  IF \E k \in 1..(MinLength * Len(PropertyOrder)) : RaisesAt(k)
  THEN MinOf({k \in 1..(MinLength * Len(PropertyOrder)) : RaisesAt(k)}) - 1
  ELSE MinLength * Len(PropertyOrder)

\* the errors returned, without their messages
ReturnedEntries == [j \in 1..Len(returned.errors) |-> Brief(returned.errors[j])]

\* C19 as stated: when the numbers of fields differ one field_count error is
\* recorded and isValid is false; the fields are compared by index at
\* every position up to the shorter length, and every differing property of a
\* pair gives one error with the id and label of the original field, the
\* property and both values.
C19_CountAndEveryPairCompared ==
  pc = "returned" /\ Reimported =>
    /\ ReturnedEntries = CountEntries \o DifferingEntries(MinLength * Len(PropertyOrder))
    /\ Len(inFields) # Len(fields) => ~returned.isValid

\* C19: when the numbers of fields differ one field_count error is recorded
\* and isValid is false; the fields are compared by index, position after
\* position up to the shorter length, until a comparison raises (the original
\* list is null and the re-imported one is not): every differing property
\* compared before that gives one error with the id and label of the original
\* field, the property and both values, and the exception gives the process
\* error that ends the list.
C19_CountAndIndexComparison ==
  pc = "returned" /\ Reimported =>
    /\ ReturnedEntries =
         CountEntries \o DifferingEntries(ComparisonsMade)
           \o (IF ComparisonsMade < MinLength * Len(PropertyOrder)
               THEN <<Brief(ProcessError(MsgNullLength))>> ELSE <<>>)
    /\ Len(inFields) # Len(fields) => ~returned.isValid

\* a list of two fields came back as one field: the count error is recorded,
\* the first original field was compared with the only re-imported one, and
\* the validation failed
C19_Witness ==
  /\ pc = "returned"
  /\ inFields = <<FSelectBrace, FFileSingle>>
  /\ Len(fields) = 1
  /\ ~returned.isValid
  /\ Len(returned.errors) > 2
  /\ returned.errors[1].property = "field_count"
  /\ returned.errors[2].property = "label"
  /\ returned.errors[2].fieldId = FSelectBrace.id


\* ---------------------------------------------------------------------------
\* The acceptedFileTypes of a file section (SpecSection)

\* the properties blocks whose acceptedFileTypes is present and is not an array
FileTypesNotArray == {PropsTypesString, PropsTypesNumber, PropsTypesNull}

\* the section is a file field whose acceptedFileTypes are "a" and "7"
FileTypesConverted ==
  /\ errors = <<>>
  /\ Len(fields) = 1
  /\ fields[1].type = tFile
  /\ fields[1].acceptedFileTypes = JArr(<<JStr(<<"a">>), JStr(<<"7">>)>>)

\* C20: a file section whose acceptedFileTypes is present and is not an array
\* (a string, a number, null) fails with the accepted-file-types error and
\* gives no field; when it is an array the field's acceptedFileTypes is that
\* array with every element converted to a string.
C20_AcceptedFileTypesStrict ==
  pc = "done" =>
    /\ \A p \in FileTypesNotArray : DocIs(tFile, p) => FailedWith(MsgFileTypesNotArray)
    /\ DocIs(tFile, PropsTypesArray) => FileTypesConverted

\* the section ## X / [file] {"acceptedFileTypes": null} has given a file field
\* without acceptedFileTypes, and no error
C20_NullAccepted ==
  /\ pc = "done"
  /\ DocIs(tFile, PropsTypesNull)
  /\ errors = <<>>
  /\ Len(fields) = 1
  /\ fields[1].type = tFile
  /\ fields[1].acceptedFileTypes = JUndefined


\* ---------------------------------------------------------------------------
\* Two calls on the same input (SpecTwice)

\* two fields are equal on every property except id
SameButId(a, b) == [a EXCEPT !.id = <<>>] = [b EXCEPT !.id = <<>>]

\* the second call of parseMarkdown has returned
CalledTwice == pc = "done" /\ returned # JUndefined

IsHeaderLine(line) == StartsWith(Trim(line), <<"#","#">>)

\* the line, trimmed, consists of three or more hyphens and of nothing else
IsRuleLine(line) ==
  Len(Trim(line)) >= 3 /\ \A i \in 1..Len(Trim(line)) : Trim(line)[i] = "-"

\* the positions of the lines that are a header or a rule
OpeningLines(lines) ==
  {i \in 1..Len(lines) : IsHeaderLine(lines[i]) \/ IsRuleLine(lines[i])}

\* the document from its first header or rule on
FromFirstOpening(lines) ==
  IF OpeningLines(lines) = {} THEN <<>>
  ELSE Join(SubSeq(lines, MinOf(OpeningLines(lines)), Len(lines)), <<NL>>)

\* the accounting of a document of these lines: one section for every header
\* and rule, one field or one error for every section parsed so far, and the
\* sections of the document without the lines before its first header or rule
Accounted(lines) ==
  /\ Len(sections) = Cardinality(OpeningLines(lines))
  /\ Len(fields) + Len(errors) = idx - 1
  /\ Len(origin) = Len(fields)
  /\ pc = "done" => Len(fields) + Len(errors) = Cardinality(OpeningLines(lines))
  /\ sections = splitIntoSections(FromFirstOpening(lines))

C23_ParserOutputIsFixedPoint ==
  op = "validateExportFidelity" /\ pc = "returned" => returned.isValid

\* the file example has been parsed without errors, and the validation of its
\* field has returned isValid = false with the error of the multiple flag
C23_FileExampleInvalid ==
  /\ op = "validateExportFidelity"
  /\ pc = "returned"
  /\ Len(inFields) = 1
  /\ inFields[1].type = tFile
  /\ inFields[1].multiple = JBool(FALSE)
  /\ ~returned.isValid
  /\ \E j \in 1..Len(returned.errors) : returned.errors[j].property = "multiple"


\* ---------------------------------------------------------------------------
\* The round trip of texts that hold markdown syntax (SpecTexts)

\* the fields were exported without a title and without a description
FieldsOnly == formTitle = JUndefined /\ formDescription = JUndefined

\* C24: the required flag survives the round trip whatever the property texts
\* hold: every field that is not a separator and has required = false is
\* re-imported with required = false, also when its placeholder, options or
\* columns hold the text (required).
C24_RequiredSurvivesRoundTrip ==
  pc = "reimported" /\ FieldsOnly =>
    \A i \in 1..Len(inFields) :
      inFields[i].type # tSeparator /\ ~inFields[i].required =>
        i <= Len(fields) /\ ~fields[i].required

\* the text field with required = false and the placeholder (required) has come
\* back with required = true
C24_RequiredFlipped ==
  /\ pc = "reimported"
  /\ FieldsOnly
  /\ inFields = <<FWordPlaceholder>>
  /\ Len(fields) = 1
  /\ fields[1].placeholder = JStr(tRequiredWord)
  /\ fields[1].required


\* the texts of a property value: the string, or the elements of the array
StringsOf(v) ==
  IF v.k = "string" THEN {v.s}
  ELSE IF v.k = "array" THEN {v.a[i].s : i \in 1..Len(v.a)}
  ELSE {}

\* the texts of the placeholder, options, columns and acceptedFileTypes
PropertyTexts(f) ==
  StringsOf(f.placeholder) \cup StringsOf(f.options) \cup StringsOf(f.columns)
    \cup StringsOf(f.acceptedFileTypes)

\* one of the property texts of the field holds a brace
HasBrace(f) ==
  \E t \in PropertyTexts(f) : \E i \in 1..Len(t) : t[i] \in {"{", "}"}

\* the field r is the field f re-imported: its label and its four properties
SameProperties(f, r) ==
  /\ r.label = f.label
  /\ r.placeholder = f.placeholder
  /\ r.options = f.options
  /\ r.columns = f.columns
  /\ r.acceptedFileTypes = f.acceptedFileTypes

\* C25: property values survive the round trip whatever characters they hold:
\* for every field that is not a separator and has a { or a } in its
\* placeholder, options, columns or acceptedFileTypes, the re-import of the
\* export has no error for its section and has a field with the same
\* placeholder, options, columns and acceptedFileTypes.
C25_BracesSurviveRoundTrip ==
  pc = "reimported" /\ FieldsOnly =>
    \A i \in 1..Len(inFields) :
      inFields[i].type # tSeparator /\ HasBrace(inFields[i]) =>
        /\ \A k \in 1..Len(errors) : errors[k].section # inFields[i].label
        /\ \E j \in 1..Len(fields) : SameProperties(inFields[i], fields[j])

\* the text field with the placeholder {x} has been exported and re-parsed: its
\* section was refused for its properties, and no field came back
C25_BraceSectionRefused ==
  /\ pc = "reimported"
  /\ FieldsOnly
  /\ inFields = <<FBraces>>
  /\ fields = <<>>
  /\ Len(errors) = 1
  /\ errors[1].section = <<"C">>


\* the loop of parseMarkdown over the sections from the k-th on, with one id
\* for every field: the fields and the errors it returns
RECURSIVE ParseSections(_, _, _, _)
ParseNext(secs, k, out) == ParseSections(secs, k + 1, out.fields, out.errors)

ParseSections(secs, k, fs, es) ==
  IF k > Len(secs) THEN [fields |-> fs, errors |-> es]
  ELSE ParseNext(secs, k, ParseCaught(secs[k], <<"f","1">>, fs, es))

\* what parseMarkdown returns for a document, up to the ids
ParseDocument(document) == ParseSections(splitIntoSections(document), 1, <<>>, <<>>)

\* the re-import is that of the reference, up to the ids
SameImport(ref) ==
  /\ errors = ref.errors
  /\ Len(fields) = Len(ref.fields)
  /\ \A i \in 1..Len(fields) : SameButId(fields[i], ref.fields[i])

\* C26: the title and the description do not interfere with the field list:
\* parseMarkdown of exportToMarkdown(fields, formTitle, formDescription)
\* returns the fields (up to id) and the errors that parseMarkdown of
\* exportToMarkdown(fields) returns, also for a title or a description with
\* lines that start with ## or are hyphens.
C26_TitleDoesNotInterfere ==
  pc = "reimported" =>
    SameImport(ParseDocument(exportToMarkdown(inFields, JUndefined, JUndefined).v))

\* the plain text field exported with the description --- has been re-parsed
\* into a separator and the text field
C26_DescriptionBecomesSeparator ==
  /\ pc = "reimported"
  /\ inFields = <<FPlain>>
  /\ formTitle = JUndefined
  /\ formDescription = DescriptionRule
  /\ Len(fields) = 2
  /\ fields[1].type = tSeparator
  /\ fields[2].label = <<"P">>


\* ---------------------------------------------------------------------------
\* The neighbours of a separator in the round trip (SpecFidelity)

\* the separator is written with a comment line: its label is not the default
\* one, or it has a help text
WrittenWithComment(f) ==
  /\ f # JNull
  /\ f.type = tSeparator
  /\ f.label # DefaultSeparatorLabel \/ f.helpText # JUndefined

\* the positions of the fields that are not separators and are followed by a
\* separator written with a comment line
BeforeComment(list) ==
  {i \in 1..(Len(list) - 1) :
     list[i] # JNull /\ list[i].type # tSeparator /\ WrittenWithComment(list[i + 1])}

\* the value is a text that holds the opening of an HTML comment
HoldsComment(v) ==
  /\ v.k = "string"
  /\ \E i \in 1..(Len(v.s) - 3) : SubSeq(v.s, i, i + 3) = <<"<","!","-","-">>

\* the comparison of the pair found no difference
NoDifference(out) == out.ok /\ out.errors = <<>>

\* C27: exporting a separator does not alter its neighbours: the field
\* re-imported at the position of a field F that a separator with a custom
\* label or a help text follows has the helpText, and every other compared
\* property, of F, and the comment lines written for the separator are part of
\* no field.
C27_SeparatorLeavesNeighbours ==
  pc = "reimported" =>
    /\ \A i \in BeforeComment(inFields) :
         /\ i <= Len(fields)
         /\ fields[i].helpText = inFields[i].helpText
         /\ NoDifference(CompareField(inFields[i], fields[i]))
    /\ \A j \in 1..Len(fields) : ~HoldsComment(fields[j].helpText)

\* the text field with the help text h, followed by the separator S with a help
\* text, has come back with the two comment lines in its help text
C27_CommentsInHelpText ==
  /\ pc = "reimported"
  /\ inFields = <<FText, FSeparatorNamed>>
  /\ Len(fields) = 2
  /\ fields[1].label = <<"A">>
  /\ fields[1].helpText = JStr(<<"h"," ">> \o tCommentOpen \o <<"S">> \o tCommentClose
                                \o <<" ">> \o tCommentOpen \o <<"h">> \o tCommentClose)
  /\ fields[2].type = tSeparator


\* ---------------------------------------------------------------------------
\* The table of the responses for any labels and answers (SpecLabels)

\* the head line, the line under it and the lines of the responses have the
\* same number of cells
Rectangular(table) ==
  /\ Len(table) = 2 + Len(responses)
  /\ \A k \in 1..Len(table) : CellCount(table[k]) = CellCount(table[1])

\* C28: in the text exportResponsesToMarkdown writes for at least one response,
\* the header row, the delimiter row and every data row have the same number
\* of cells when split on the | that no backslash precedes, whatever the field
\* labels, the response keys and the response values hold.
C28_TableIsRectangular ==
  pc = "done" /\ Len(responses) > 0 => Rectangular(TableLines(Split(markdown, NL)))

\* the table written for the field labelled a|b and one response: three cells
\* in the header row, two in the other rows
C28_PipedLabelSplitsHeader ==
  /\ pc = "done"
  /\ formTemplate.fields = <<RPiped>>
  /\ responses = <<ResponseOf(<<<<IdF1, VText>>>>, "t1")>>
  /\ CellCount(TableLines(Split(markdown, NL))[1]) = 3
  /\ CellCount(TableLines(Split(markdown, NL))[2]) = 2
  /\ CellCount(TableLines(Split(markdown, NL))[3]) = 2


\* the fields of the template that are not separators, in order
ShownFields(template) ==
  SelectSeq(template.fields, LAMBDA f : f.type # tSeparator)

\* the answer is one that is written: a text that is not blank
Answered(v) == v.k = "string" /\ Trim(v.s) # <<>>

\* the cells of a line, in order
CellsOf(line) == [n \in 1..CellCount(line) |-> CellAt(line, n)]

\* the answers of the shown fields that are written, in the order of the fields
AnswersOf(response, shown) ==
  SelectSeq([i \in 1..Len(shown) |-> GetProp(response.responses, shown[i].id)], Answered)

\* the cells after the date that are not the dash, in order
WrittenCells(line) ==
  SelectSeq(Tail(CellsOf(line)), LAMBDA cell : cell # <<"-">>)

\* every written answer of the response has a cell of its own in the line: the
\* cells that are not dashes are the renderings of the answers, one for one
EveryAnswerHasCell(response, shown, line) ==
  /\ Len(WrittenCells(line)) >= Len(AnswersOf(response, shown))
  /\ \A i \in 1..Len(AnswersOf(response, shown)) :
       \E n \in 1..Len(WrittenCells(line)) :
         CellReads(WrittenCells(line)[n], AnswersOf(response, shown)[i].s)

\* C29: no response value is lost in the table: for every response and every
\* field of the template that is not a separator and for which the response
\* holds a value that is not empty, the row of the response has the rendering
\* of the value in a column of its own, also when two fields of the template
\* have the same label.
C29_NoAnswerLost ==
  pc = "done" /\ Len(responses) > 0 =>
    \A r \in 1..Len(responses) :
      EveryAnswerHasCell(responses[r], ShownFields(formTemplate),
                         TableLines(Split(markdown, NL))[2 + r])

\* two fields labelled A and a response that answers u to the first and v to
\* the second: the row has the date and the cell u, and v is nowhere
C29_TwinAnswerDropped ==
  /\ pc = "done"
  /\ formTemplate.fields = <<RFieldA, RTwin>>
  /\ responses = <<ResponseOf(<<<<IdF1, VText>>, <<IdF2, VOther>>>>, "t2")>>
  /\ CellCount(TableLines(Split(markdown, NL))[3]) = 2
  /\ CellAt(TableLines(Split(markdown, NL))[3], 2) = <<"u">>


\* the value is missing, null, a blank text or an empty array
AbsentOrEmpty(v) ==
  \/ v \in {JUndefined, JNull}
  \/ v.k = "string" /\ Trim(v.s) = <<>>
  \/ v.k = "array" /\ Len(v.a) = 0

\* the cell written for the first field of the template, whose id is f1
FirstAnswerCell(r) == CellAt(TableLines(Split(markdown, NL))[2 + r], 2)

\* the cell of the value: 0 for the number 0, false for the boolean false, and
\* the dash for an absent or empty value only
DashOnlyForEmpty(v, cell) ==
  /\ v = JNum(0) => cell = <<"0">>
  /\ v = JBool(FALSE) => cell = <<"f","a","l","s","e">>
  /\ cell = <<"-">> => AbsentOrEmpty(v)

\* C30: the cell - stands for an absent or empty value only: the number 0 is
\* written 0 and the boolean false is written false, and a cell is - only for
\* a value that is missing, null, an empty or blank text, or an empty array.
C30_DashOnlyForEmpty ==
  pc = "done" /\ Len(responses) > 0 /\ formTemplate.fields[1].id = IdF1 =>
    \A r \in 1..Len(responses) :
      DashOnlyForEmpty(GetProp(responses[r].responses, IdF1), FirstAnswerCell(r))

\* the answer 0 has been written as the cell -
C30_ZeroWrittenAsDash ==
  /\ pc = "done"
  /\ formTemplate.fields = <<RFieldA>>
  /\ responses = <<ResponseOf(<<<<IdF1, VZero>>>>, "t2")>>
  /\ FirstAnswerCell(1) = <<"-">>

====
